---- MODULE Spec2Model ----
(***************************************************************************)
(* Reference counting with a stop-the-world Bacon-Rajan cycle collector    *)
(* (vm/src/object/gc/collector.rs), the drop / dealloc split               *)
(* (vm/src/object/drop_object.rs) and the finalizer call                   *)
(* (vm/src/object/gc/utils.rs).                                            *)
(*                                                                         *)
(* The heap is a fixed population of objects.  Every object carries a      *)
(* header (ref count, color, flags) and a payload holding owned references *)
(* to other objects.  A mutator thread copies and drops references; a      *)
(* collector thread runs passes, and the mutator thread may ask for a      *)
(* collection of its own while one is in progress.  Nested calls made by   *)
(* a destructor (the dec_try_drop of every field) are kept on a per-thread *)
(* call stack so that they run depth-first, as the Rust code runs them.    *)
(*                                                                         *)
(* Side specifications on the same variables take one part alone: the      *)
(* one-shot guards of a header (GuardSpec), the gate of a pass (GateSpec), *)
(* the traversal of composite values (TraceSpec, trace.rs), the Dict       *)
(* (DictSpec and, with every call, DictOpsSpec, vm/src/dictdatatype.rs),   *)
(* the pause lock of the VMs (LockSpec), the run loop of a frame           *)
(* (FrameSpec, vm/src/frame.rs); ReloadSpec is the main one on the heaps   *)
(* of a self-referencing finalizable object, with one more read.           *)
(***************************************************************************)
EXTENDS Integers, Sequences, FiniteSets, TLC

\* ------------------------------------------------------------------------
\* Bounds of the model
\* ------------------------------------------------------------------------
\* largest number of owned references stored in payloads in the initial heap
MaxEdges == 2
\* how many times the mutator reads a field (and so copies a reference)
MaxLoads == 1
\* how many times a __del__ stores a new reference to its object
MaxRes == 1
\* ref_cnt is a machine word; the model keeps RcBits bits of it
RcBits == 4

\* the allocation counters and the length of the root buffer that need_gc
\* reads count up to MaxCount
MaxCount == 3

\* GcCond.threshold and GcCond.root_cleanup_size, scaled to the counters
GcThreshold == 1
RootCleanupSize == 1
\* the shortest time between two opportunistic passes, in ticks
MinInterval == 1

\* the longest Vec inside the traced PyMutex
MaxLen == 2
\* the most entries the Dict's entries vector grows to
MaxEntries == 4

\* the deepest nesting of pausing calls on one VM
MaxDepth == 2

\* the number of instructions of the code object of the frame
CodeLen == 3

\* the most instructions one run of a frame dispatches
MaxInstr == 2100

\* the value of gc_cnt above which the run loop calls try_gc
GcCountLimit == 1000

\* the number of indices of a new Dict, scaled to the number of keys
IndicesSize == 4
\* IndexEntry::FREE and IndexEntry::DUMMY
FREE == -1
DUMMY == -2

\* the objects of the heap, and the order in which fields are traversed
Obj == {"A", "B", "C"}
Ord == <<"A", "B", "C">>
\* the objects whose class defines __del__ (a __del__ that stores no reference
\* acts like no __del__ at all)
DelObj == {"A"}
\* the objects the mutator may mark as leaked
LeakObj == {"C"}
\* the objects whose type has no traverse function when they own no reference
PlainObj == {"C"}

Threads == {"mut", "gc"}
Colors == {"Black", "Gray", "White", "Purple"}

RcModulus == 2 ^ RcBits

VARIABLES
    heap,        \* heap[o]: the header of o (GcHeader)
    children,    \* children[o]: the objects o's payload owns a reference to
    hasDel,      \* the objects whose class defines __del__
    trace,       \* trace[o]: the vtable of o has a traverse function
    ext,         \* ext[o]: references to o held by the mutator (stack, globals)
    roots,       \* Collector.roots, the buffer of possible cycle roots
    pause,       \* Collector.pause is write-locked by a collecting thread
    is_enabled,  \* Collector.is_enabled
    pc,          \* pc[t]: position of thread t inside collect_cycles
    white,       \* white[t]: the list collect_roots / free_cycles works on
    idx,         \* idx[t]: index of the loop the pass is in
    resurrected, \* resurrected[t]: free_cycles, resurrected_not_buffered
    freedCnt,    \* freedCnt[t]: mark_roots, freed
    lenWhite,    \* lenWhite[t]: collect_roots, len_white
    stack,       \* stack[t]: calls that thread t still has to make, innermost first
    dropped,     \* dropped[o]: how often the payload destructor of o ran
    dealloced,   \* dealloced[o]: how often the memory of o was freed
    uaf,         \* some code touched an object whose memory was freed
    liveAtStart, \* [t] objects reachable from a mutator-held reference when the pass of t started
    passFreed,   \* [t] objects the pass of t dropped or deallocated
    cycleAtStart,\* [t] members of the closed garbage cycles when the pass of t started,
             \*     those another pass has already collected left out
    revived,     \* [t] objects a __del__ called by the pass of t brought back to life
    loads,       \* field reads the mutator has made
    res,         \* resurrections that have happened
    lastOp,      \* the call that returned in the last step, and what it returned
    hdr,         \* one GcHeader seen lock by lock: its two guards, the owner of the is_drop mutex
    call,        \* call[t]: the check_set_* call thread t is inside, and where it is
    okCnt,       \* okCnt[f]: how many calls of check_set_* function f returned true
    gate,        \* Collector.gc_cond and the length of the root buffer, seen by need_gc
    box,         \* a PyMutex<(Option<PyObjectRef>, Vec<PyObjectRef>)> and whether it is locked
    dict,        \* the DictInner of one Dict, and whether its PyRwLock is write-locked
    tcall,       \* the last call of trace: what it traversed and the calls of tracer_fn it made
    dret,        \* the last call on the Dict and what it returned
    items,       \* items[x]: the key object and the value the Dict should hold for text x
    pause_lock,  \* pause_lock[v]: the GCReadLock of VM v (VirtualMachine.pause_lock)
    rwlock,      \* Collector.pause seen guard by guard: read guards per VM, the writer
    stw,         \* stw[v]: where VM v is inside stop_the_world_gc, and what it saved
    excess,      \* excess[v]: pausing calls of v not yet matched by a resuming call
    vmlast,      \* the call on a pause lock that returned last
    frame        \* one run of ExecutingFrame::run: its counter, lasti, and what it did

\* the state of the one-shot guards taken alone
guardVars == <<hdr, call, okCnt>>

\* the traced containers taken alone
dataVars == <<box, dict, tcall, dret, items>>

\* the pause lock of every VM and the run of a frame taken alone
vmVars == <<pause_lock, rwlock, stw, excess, vmlast>>

\* the state the collector's actions never touch
sideVars == <<guardVars, gate, dataVars, vmVars, frame>>

vars == <<heap, children, hasDel, trace, ext, roots, pause, is_enabled, pc, white,
          idx, resurrected, freedCnt, lenWhite, stack, dropped, dealloced, uaf,
          liveAtStart, passFreed, cycleAtStart, revived, loads, res, lastOp,
          hdr, call, okCnt, gate, box, dict, tcall, dret, items,
          pause_lock, rwlock, stw, excess, vmlast, frame>>

\* ------------------------------------------------------------------------
\* Helpers
\* ------------------------------------------------------------------------
\* the elements of S in traversal order
SeqOf(S) == SelectSeq(Ord, LAMBDA x : x \in S)

Range(s) == {s[i] : i \in 1..Len(s)}

Min(a, b) == IF a < b THEN a ELSE b

\* the objects reachable from the set S along owned references
RECURSIVE ReachFrom(_, _)
ReachFrom(ch, S) ==
    LET T == S \cup UNION {ch[o] : o \in S}
    IN IF T = S THEN S ELSE ReachFrom(ch, T)

\* ------------------------------------------------------------------------
\* GcHeader
\* ------------------------------------------------------------------------
NewHeader(n) ==
    [rc |-> n, color |-> "Black", in_cycle |-> FALSE, buffered |-> FALSE,
     is_drop |-> FALSE, is_dealloc |-> FALSE, is_leak |-> FALSE]

inc(h, o) == [h EXCEPT ![o].rc = (@ + 1) % RcModulus]

dec(h, o) == [h EXCEPT ![o].rc = (@ + RcModulus - 1) % RcModulus]

set_color(h, o, c) == [h EXCEPT ![o].color = c]

set_buffered(h, o, b) == [h EXCEPT ![o].buffered = b]

set_in_cycle(h, o, b) == [h EXCEPT ![o].in_cycle = b]

inc_black(h, o) == set_color(inc(h, o), o, "Black")

leak(h, o) == IF h[o].is_leak THEN h ELSE [h EXCEPT ![o].is_leak = TRUE]


is_leaked(h, o) == h[o].is_leak

\* return true if can drop and dealloc (also mark the object as dropped and deallocated)
check_set_drop_dealloc(h, o) ==
    IF h[o].is_dealloc THEN [h |-> h, ok |-> FALSE]
    ELSE IF ~h[o].is_drop /\ ~h[o].is_dealloc
         THEN [h |-> [h EXCEPT ![o].is_drop = TRUE, ![o].is_dealloc = TRUE], ok |-> TRUE]
         ELSE [h |-> h, ok |-> FALSE]

\* return true if can drop (also mark the object as dropped)
check_set_drop_only(h, o) ==
    IF h[o].is_dealloc THEN [h |-> h, ok |-> FALSE]
    ELSE IF ~h[o].is_drop /\ ~h[o].is_dealloc
         THEN [h |-> [h EXCEPT ![o].is_drop = TRUE], ok |-> TRUE]
         ELSE [h |-> h, ok |-> FALSE]

\* return true if can dealloc (that is, already dropped)
check_set_dealloc_only(h, o) ==
    IF ~h[o].is_drop THEN [h |-> h, ok |-> FALSE]
    ELSE IF h[o].is_drop /\ ~h[o].is_dealloc
         THEN [h |-> [h EXCEPT ![o].is_dealloc = TRUE], ok |-> TRUE]
         ELSE [h |-> h, ok |-> FALSE]

\* ------------------------------------------------------------------------
\* Collector: the reference counting core
\* ------------------------------------------------------------------------
\* increment that leaves the color as it is
increment_plain(h, o) == IF is_leaked(h, o) THEN h ELSE inc(h, o)

increment(h, o) == IF is_leaked(h, o) THEN h ELSE inc_black(h, o)

\* release that reports every object as buffered
release_buffered(h, rts, o) ==
    [h |-> set_color(h, o, "Black"), roots |-> rts, stat |-> "BufferedDrop"]

release(h, rts, o) ==
    LET h1 == set_color(h, o, "Black")
    IN [h |-> h1, roots |-> rts,
        stat |-> IF h1[o].buffered THEN "BufferedDrop" ELSE "ShouldDrop"]

\* possible_root that marks the candidate Gray
possible_root_gray(h, rts, o) ==
    IF h[o].color # "Gray"
    THEN LET h1 == set_color(h, o, "Gray")
         IN IF ~h1[o].buffered
            THEN [h |-> set_buffered(h1, o, TRUE), roots |-> Append(rts, o)]
            ELSE [h |-> h1, roots |-> rts]
    ELSE [h |-> h, roots |-> rts]

possible_root(h, rts, o) ==
    IF h[o].color # "Purple"
    THEN LET h1 == set_color(h, o, "Purple")
         IN IF ~h1[o].buffered
            THEN [h |-> set_buffered(h1, o, TRUE), roots |-> Append(rts, o)]
            ELSE [h |-> h1, roots |-> rts]
    ELSE [h |-> h, roots |-> rts]

\* decrement that does not look at the leak flag
decrement_leaked(h, rts, o) ==
    IF h[o].rc > 0
    THEN LET h1 == dec(h, o)
         IN IF h1[o].rc = 0
            THEN release(h1, rts, o)
            ELSE LET p == possible_root(h1, rts, o)
                 IN [h |-> p.h, roots |-> p.roots, stat |-> "ShouldKeep"]
    ELSE [h |-> h, roots |-> rts, stat |-> "DoNothing"]

decrement(h, rts, o) ==
    IF is_leaked(h, o)
    THEN [h |-> h, roots |-> rts, stat |-> "ShouldKeep"]
    ELSE IF h[o].rc > 0
         THEN LET h1 == dec(h, o)
              IN IF h1[o].rc = 0
                 THEN release(h1, rts, o)
                 ELSE LET p == possible_root(h1, rts, o)
                      IN [h |-> p.h, roots |-> p.roots, stat |-> "ShouldKeep"]
         ELSE [h |-> h, roots |-> rts, stat |-> "DoNothing"]

\* ------------------------------------------------------------------------
\* Finalizer and destructor
\* ------------------------------------------------------------------------
\* what a __del__ of o may do when it is called: store a new reference to o
\* (TRUE) or not (FALSE)
Resurrects(o) == IF hasDel[o] /\ res < MaxRes THEN BOOLEAN ELSE {FALSE}

\* call_del that reports every __del__ as having left the object dead
call_del_dead(h, o, r) ==
    IF ~hasDel[o] THEN [h |-> h, ok |-> TRUE]
    ELSE LET h1 == inc(h, o)
             h2 == IF r THEN increment(h1, o) ELSE h1
             h3 == dec(h2, o)
         IN [h |-> h3, ok |-> TRUE]

\* call_del: ok is FALSE when the object came back to life in __del__
call_del(h, o, r) ==
    IF ~hasDel[o] THEN [h |-> h, ok |-> TRUE]
    ELSE LET h1 == inc(h, o)
             h2 == IF r THEN increment(h1, o) ELSE h1
             h3 == dec(h2, o)
         IN [h |-> h3, ok |-> (h3[o].rc = 0)]

\* drop_slow_inner: run __del__ (and clear the weak references, which have no
\* state here); ok is FALSE when the drop has to be abandoned
drop_slow_inner(h, o, r) == call_del(h, o, r)

\* drop_slow: the destructor and the release of the memory run behind the
\* one-shot guard of the header
drop_slow(h, o) == check_set_drop_dealloc(h, o)

\* the calls a payload destructor makes: dec_try_drop of every owned reference
FieldDrops(o) == [i \in 1..Len(SeqOf(children[o])) |->
                     [op |-> "dec", obj |-> SeqOf(children[o])[i]]]

Bump(f, o) == [f EXCEPT ![o] = Min(@ + 1, 2)]


\* ------------------------------------------------------------------------
\* Collector: the three phases of a pass
\* ------------------------------------------------------------------------
RECURSIVE mark_gray(_, _, _), mark_gray_children(_, _, _, _)
mark_gray(h, ch, o) ==
    IF h[o].color # "Gray"
    THEN mark_gray_children(set_color(h, o, "Gray"), ch, SeqOf(ch[o]), 1)
    ELSE h
mark_gray_children(h, ch, ks, i) ==
    IF i > Len(ks) THEN h
    ELSE IF is_leaked(h, ks[i]) THEN mark_gray_children(h, ch, ks, i + 1)
    ELSE mark_gray_children(mark_gray(dec(h, ks[i]), ch, ks[i]), ch, ks, i + 1)

\* mark_roots over the drained buffer rts[i..]; frees are the objects whose
\* memory dealloc_only released
RECURSIVE mark_roots_from(_, _, _, _, _)
mark_roots_from(h, ch, rts, i, acc) ==
    IF i > Len(rts) THEN [h |-> h, roots |-> acc.roots, freed |-> acc.freed, frees |-> acc.frees]
    ELSE LET o == rts[i]
         IN IF h[o].color = "Purple"
            THEN mark_roots_from(mark_gray(h, ch, o), ch, rts, i + 1,
                                 [acc EXCEPT !.roots = Append(@, o)])
            ELSE LET h1 == set_buffered(h, o, FALSE)
                 IN IF h1[o].color = "Black" /\ h1[o].rc = 0
                    THEN mark_roots_from(h1, ch, rts, i + 1,
                                [acc EXCEPT !.freed = @ + 1, !.frees = Append(@, o)])
                    ELSE mark_roots_from(h1, ch, rts, i + 1, acc)

mark_roots(h, ch, rts) ==
    mark_roots_from(h, ch, rts, 1, [roots |-> <<>>, freed |-> 0, frees |-> <<>>])

RECURSIVE scan_black(_, _, _), scan_black_children(_, _, _, _)
scan_black(h, ch, o) ==
    scan_black_children(set_color(h, o, "Black"), ch, SeqOf(ch[o]), 1)
scan_black_children(h, ch, ks, i) ==
    IF i > Len(ks) THEN h
    ELSE IF is_leaked(h, ks[i]) THEN scan_black_children(h, ch, ks, i + 1)
    ELSE LET h1 == inc(h, ks[i])
         IN scan_black_children(
                IF h1[ks[i]].color # "Black" THEN scan_black(h1, ch, ks[i]) ELSE h1,
                ch, ks, i + 1)

RECURSIVE scan(_, _, _), scan_children(_, _, _, _)
scan(h, ch, o) ==
    IF h[o].color = "Gray"
    THEN IF h[o].rc > 0
         THEN scan_black(h, ch, o)
         ELSE scan_children(set_color(h, o, "White"), ch, SeqOf(ch[o]), 1)
    ELSE h
scan_children(h, ch, ks, i) ==
    IF i > Len(ks) THEN h
    ELSE IF is_leaked(h, ks[i]) THEN scan_children(h, ch, ks, i + 1)
    ELSE scan_children(scan(h, ch, ks[i]), ch, ks, i + 1)

RECURSIVE scan_roots_from(_, _, _, _)
scan_roots_from(h, ch, rts, i) ==
    IF i > Len(rts) THEN h ELSE scan_roots_from(scan(h, ch, rts[i]), ch, rts, i + 1)

scan_roots(h, ch, rts) == scan_roots_from(h, ch, rts, 1)

\* collect_white works on s = [h, white]
RECURSIVE collect_white(_, _, _), collect_white_children(_, _, _, _)
collect_white(s, ch, o) ==
    IF s.h[o].color = "White" /\ ~s.h[o].buffered
    THEN LET h1 == set_in_cycle(set_color(s.h, o, "Black"), o, TRUE)
             s1 == collect_white_children([s EXCEPT !.h = h1], ch, SeqOf(ch[o]), 1)
         IN [s1 EXCEPT !.white = Append(@, o)]
    ELSE s
collect_white_children(s, ch, ks, i) ==
    IF i > Len(ks) THEN s
    ELSE IF is_leaked(s.h, ks[i]) THEN collect_white_children(s, ch, ks, i + 1)
    ELSE collect_white_children(collect_white(s, ch, ks[i]), ch, ks, i + 1)

\* the loop of collect_roots over the drained buffer
RECURSIVE collect_roots_from(_, _, _, _)
collect_roots_from(s, ch, rts, i) ==
    IF i > Len(rts) THEN s
    ELSE collect_roots_from(
             collect_white([s EXCEPT !.h = set_buffered(@, rts[i], FALSE)], ch, rts[i]),
             ch, rts, i + 1)

collect_roots(h, ch, rts) == collect_roots_from([h |-> h, white |-> <<>>], ch, rts, 1)

\* free_cycles, first loop: one more reference for every child that is still counted
RECURSIVE inc_children(_, _, _)
inc_children(h, ks, i) ==
    IF i > Len(ks) THEN h
    ELSE IF is_leaked(h, ks[i]) THEN inc_children(h, ks, i + 1)
    ELSE inc_children(IF h[ks[i]].rc > 0 THEN inc(h, ks[i]) ELSE h, ks, i + 1)

RECURSIVE inc_white_from(_, _, _, _)
inc_white_from(h, ch, w, i) ==
    IF i > Len(w) THEN h
    ELSE inc_white_from(inc_children(h, SeqOf(ch[w[i]]), 1), ch, w, i + 1)


\* ------------------------------------------------------------------------
\* Initial state: a heap the mutator has built, holding one reference to
\* every object
\* ------------------------------------------------------------------------
EdgeCount(g) == Cardinality({e \in Obj \X Obj : e[2] \in g[e[1]]})

InDegree(g, o) == Cardinality({p \in Obj : o \in g[p]})

Graphs == {g \in [Obj -> SUBSET Obj] : EdgeCount(g) <= MaxEdges}

NoOp == [op |-> "none", obj |-> "A", stat |-> "none"]

\* GcCond::default and an empty root buffer; elapsed is the time since the
\* last pass, in ticks; last is the call that returned last, with the buffer
\* length it found and the time since the pass before it
NoGateCall == [op |-> "none", ret |-> FALSE, len |-> 0, after |-> 0]

GateInit ==
    gate = [alloc_cnt |-> 0, dealloc_cnt |-> 0, root_len |-> 0, elapsed |-> 0,
            last |-> NoGateCall]

\* the check_set_* functions of the header
GuardFns == {"drop_only", "dealloc_only", "drop_dealloc"}

NoCall == [fn |-> "none", pc |-> "none", is_dealloc |-> FALSE]

\* GcHeader::default: both guards false, no mutex held, no call in progress
GuardInit ==
    /\ hdr = [is_drop |-> FALSE, is_dealloc |-> FALSE, drop_lock |-> "free"]
    /\ call = [t \in Threads |-> NoCall]
    /\ okCnt = [f \in GuardFns |-> 0]

\* ------------------------------------------------------------------------
\* The traced containers: a PyMutex around a pair of an Option and a Vec,
\* and a Dict whose keys are str objects
\* ------------------------------------------------------------------------
\* the str objects used as keys, the text of each, and the texts looked up
KeyObj == {"k1", "k2", "k3", "k4"}
Texts == {"x", "y", "z", "w"}
TextOf == [k \in KeyObj |-> CASE k = "k1" -> "x" [] k = "k2" -> "x"
                                [] k = "k3" -> "y" [] OTHER -> "z"]

\* Option::None, for an entry of the Dict and for an item the Dict lacks
NoEntry == [some |-> FALSE]

NoTrace == [of |-> "none", calls |-> <<>>, panic |-> FALSE]

NoRet == [op |-> "none", text |-> "x", ret |-> FALSE, val |-> "none", len |-> 0]

\* Dict::default
NewDict ==
    [used |-> 0, filled |-> 0,
     indices |-> [i \in 1..IndicesSize |-> FREE],
     entries |-> <<>>,
     writer |-> FALSE]

DataInit ==
    /\ box = [held |-> FALSE, opt |-> "none", vec |-> <<>>]
    /\ dict = NewDict
    /\ tcall = NoTrace
    /\ dret = NoRet
    /\ items = [x \in Texts |-> NoEntry]

\* ------------------------------------------------------------------------
\* The pause lock of a VM (GCReadLock) and the run of a frame
\* ------------------------------------------------------------------------
\* the VM threads
VMs == {"v1", "v2"}

\* GCReadLock::new: no guard, no recursion
NewReadLock == [guard |-> FALSE, recursive |-> 0]

NoStw == [pc |-> "none", saved |-> NewReadLock, before |-> NewReadLock, done |-> FALSE]

NoVmCall == [op |-> "none", vm |-> "v1", warned |-> FALSE, panic |-> FALSE]

\* VirtualMachine::start_thread: no read lock is acquired; nobody holds
\* Collector.pause
VmInit ==
    /\ pause_lock = [v \in VMs |-> NewReadLock]
    /\ rwlock = [readers |-> [v \in VMs |-> 0], writer |-> "none"]
    /\ stw = [v \in VMs |-> NoStw]
    /\ excess = [v \in VMs |-> 0]
    /\ vmlast = NoVmCall

\* ExecutingFrame::run has not been entered
FrameInit ==
    frame = [running |-> FALSE, at |-> "top", gc_cnt |-> 0, lasti |-> 0,
             dispatched |-> 0, since |-> 0, attempts |-> 0]

Init ==
    /\ children \in Graphs
    /\ hasDel = [o \in Obj |-> o \in DelObj]
    /\ trace = [o \in Obj |-> o \notin PlainObj \/ children[o] # {}]
    /\ ext = [o \in Obj |-> 1]
    /\ heap = [o \in Obj |-> NewHeader(1 + InDegree(children, o))]
    /\ roots = <<>>
    /\ pause = FALSE
    /\ is_enabled = TRUE
    /\ pc = [t \in Threads |-> "idle"]
    /\ white = [t \in Threads |-> <<>>]
    /\ idx = [t \in Threads |-> 0]
    /\ resurrected = [t \in Threads |-> <<>>]
    /\ freedCnt = [t \in Threads |-> 0]
    /\ lenWhite = [t \in Threads |-> 0]
    /\ stack = [t \in Threads |-> <<>>]
    /\ dropped = [o \in Obj |-> 0]
    /\ dealloced = [o \in Obj |-> 0]
    /\ uaf = FALSE
    /\ liveAtStart = [t \in Threads |-> {}]
    /\ passFreed = [t \in Threads |-> {}]
    /\ cycleAtStart = [t \in Threads |-> {}]
    /\ revived = [t \in Threads |-> {}]
    /\ loads = 0
    /\ res = 0
    /\ lastOp = NoOp
    /\ GuardInit
    /\ GateInit
    /\ DataInit
    /\ VmInit
    /\ FrameInit

passVars == <<pause, pc, white, idx, resurrected, freedCnt, lenWhite,
              liveAtStart, cycleAtStart, revived>>

\* ------------------------------------------------------------------------
\* dec_try_drop, drop_slow, drop_only
\* ------------------------------------------------------------------------
\* thread t drops one reference to o; e is the mutator's reference table
\* after the caller's own change, rest the calls t makes afterwards
dec_try_drop(t, o, rest, e) ==
    LET d == decrement(heap, roots, o)
    IN /\ roots' = d.roots
       /\ uaf' = (uaf \/ dealloced[o] > 0)
       /\ lastOp' = [op |-> "decrement", obj |-> o, stat |-> d.stat]
       /\ UNCHANGED <<hasDel, trace, sideVars, is_enabled, dealloced, loads>>
       /\ IF d.stat \in {"ShouldKeep", "DoNothing"}
          THEN /\ heap' = d.h
               /\ ext' = e
               /\ UNCHANGED res
               /\ stack' = [stack EXCEPT ![t] = rest]
               /\ UNCHANGED <<children, dropped, passFreed>>
          ELSE \E r \in Resurrects(o) :
               LET cd == drop_slow_inner(d.h, o, r)
                   g == IF d.stat = "ShouldDrop"
                        THEN drop_slow(cd.h, o)
                        ELSE [h |-> cd.h, ok |-> TRUE]
                   runs == cd.ok /\ g.ok
                   frees == runs /\ d.stat = "ShouldDrop" /\ ~g.h[o].buffered
               IN /\ heap' = IF cd.ok THEN g.h ELSE cd.h
                  /\ ext' = IF hasDel[o] /\ r THEN [e EXCEPT ![o] = @ + 1] ELSE e
                  /\ res' = IF hasDel[o] /\ r THEN res + 1 ELSE res
                  /\ children' = IF runs THEN [children EXCEPT ![o] = {}] ELSE children
                  /\ dropped' = IF runs THEN Bump(dropped, o) ELSE dropped
                  /\ passFreed' = IF runs /\ pc[t] # "idle"
                                   THEN [passFreed EXCEPT ![t] = @ \cup {o}]
                                   ELSE passFreed
                  /\ stack' = [stack EXCEPT ![t] =
                                  IF runs
                                  THEN FieldDrops(o)
                                       \o (IF frees THEN <<[op |-> "dealloc", obj |-> o]>>
                                           ELSE <<>>)
                                       \o rest
                                  ELSE rest]

\* the end of drop_dealloc_obj: the memory of o is released
dealloc_obj(t, o, rest) ==
    /\ dealloced' = Bump(dealloced, o)
    /\ stack' = [stack EXCEPT ![t] = rest]
    /\ passFreed' = IF pc[t] # "idle" THEN [passFreed EXCEPT ![t] = @ \cup {o}]
                     ELSE passFreed
    /\ lastOp' = NoOp
    /\ UNCHANGED <<heap, children, hasDel, trace, sideVars, is_enabled, ext, roots, dropped,
                   uaf, loads, res>>

\* thread t makes the innermost call it still has to make; a thread that is
\* not inside collect_cycles holds the read side of the pause lock
ThreadStep(t) ==
    /\ stack[t] # <<>>
    /\ pc[t] = "idle" => ~pause
    /\ LET top == Head(stack[t])
       IN IF top.op = "dec"
          THEN dec_try_drop(t, top.obj, Tail(stack[t]), ext)
          ELSE dealloc_obj(t, top.obj, Tail(stack[t]))
    /\ UNCHANGED passVars

\* ------------------------------------------------------------------------
\* The switch of the collector
\* ------------------------------------------------------------------------
isenabled_always == TRUE

isenabled == is_enabled

\* a switch that can be turned off and never on again
setenabled_once(b) == is_enabled' = (is_enabled /\ b)

setenabled(b) == is_enabled' = b

\* need_gc: gc_cond is what the allocation counters and the length of the
\* root buffer say
need_gc(gc_cond) == gc_cond /\ is_enabled

\* is_traceable: the vtable of o has a traverse function
is_traceable(o) == trace[o]

\* ------------------------------------------------------------------------
\* The mutator
\* ------------------------------------------------------------------------
MutatorRuns == ~pause /\ stack["mut"] = <<>> /\ pc["mut"] = "idle"

\* read a field of an object the mutator holds: one more reference to the
\* child
load_field(p, o) ==
    /\ MutatorRuns
    /\ ext[p] > 0 /\ o \in children[p]
    /\ loads' = loads + 1
    /\ UNCHANGED res
    /\ heap' = increment(heap, o)
    /\ ext' = [ext EXCEPT ![o] = @ + 1]
    /\ uaf' = (uaf \/ dealloced[o] > 0 \/ dealloced[p] > 0)
    /\ lastOp' = [op |-> "increment", obj |-> o, stat |-> "none"]
    /\ UNCHANGED <<children, hasDel, trace, sideVars, is_enabled, roots, stack, dropped, dealloced>>
    /\ UNCHANGED <<passVars, passFreed>>

\* the mutator reads a field at most MaxLoads times
LoadField(p, o) ==
    /\ loads < MaxLoads
    /\ load_field(p, o)

\* drop a reference the mutator holds
DropRef(o) ==
    /\ MutatorRuns
    /\ ext[o] > 0
    /\ dec_try_drop("mut", o, <<>>, [ext EXCEPT ![o] = @ - 1])
    /\ UNCHANGED passVars

\* mark an object the mutator holds as leaked
Leak(o) ==
    /\ MutatorRuns
    /\ o \in LeakObj
    /\ ext[o] > 0
    /\ ~is_leaked(heap, o)
    /\ heap' = leak(heap, o)
    /\ uaf' = (uaf \/ dealloced[o] > 0)
    /\ lastOp' = NoOp
    /\ UNCHANGED <<children, hasDel, trace, sideVars, is_enabled, ext, roots, stack, dropped,
                   dealloced, loads, res>>
    /\ UNCHANGED <<passVars, passFreed>>

\* gc.enable() / gc.disable()
SetEnabled(b) ==
    /\ MutatorRuns
    /\ setenabled(b)
    /\ lastOp' = NoOp
    /\ UNCHANGED <<heap, children, hasDel, trace, sideVars, ext, roots, stack, dropped,
                   dealloced, uaf, loads, res>>
    /\ UNCHANGED <<passVars, passFreed>>

\* ------------------------------------------------------------------------
\* The collector: one pass, from collect_cycles to the end of free_cycles
\* ------------------------------------------------------------------------
heapVars == <<heap, children, hasDel, trace, sideVars, ext, roots, stack, dropped, dealloced,
             uaf, loads, res>>

\* a dangling pointer is followed when a freed object is in the traversed graph
Touches(S) == \E o \in ReachFrom(children, S) : dealloced[o] > 0

BumpAll(f, s) == [o \in Obj |-> Min(f[o] + Cardinality({i \in 1..Len(s) : s[i] = o}), 2)]

\* the objects on a cycle of owned references
OnCycle == {o \in Obj : o \in ReachFrom(children, children[o])}

\* the objects on the same cycles as o
CycleOf(o) == {x \in ReachFrom(children, {o}) : o \in ReachFrom(children, {x})}

\* the objects a destructor in progress still holds in a field it has not
\* dropped yet
HeldByDrop ==
    UNION {{stack[t][i].obj : i \in {j \in 1..Len(stack[t]) : stack[t][j].op = "dec"}} :
              t \in Threads}

\* members of the cycles that nothing outside the cycle refers to: not the
\* mutator, not another object, not a destructor in progress; leaked objects
\* do not count
ClosedCycles ==
    {o \in OnCycle :
        \A x \in CycleOf(o) :
            /\ ext[x] = 0
            /\ ~is_leaked(heap, x)
            /\ x \notin HeldByDrop
            /\ \A p \in Obj \ CycleOf(o) : x \notin children[p]}

\* try_pause_self of thread t: the write side of the pause lock is granted
\* when no pass holds it and no other thread holds the read side, that is, no
\* thread outside collect_cycles is in the middle of a call; otherwise the
\* attempt gives up after its bounded wait
try_pause_self_granted(t) == TRUE

try_pause_self(t) ==
    /\ ~pause
    /\ \A u \in Threads \ {t} : pc[u] = "idle" => stack[u] = <<>>

\* collect_cycles of thread t returns GcResult (a, c); t is idle again
Return(t, a, c) ==
    /\ pc' = [pc EXCEPT ![t] = "idle"]
    /\ idx' = [idx EXCEPT ![t] = 0]
    /\ white' = [white EXCEPT ![t] = <<>>]
    /\ resurrected' = [resurrected EXCEPT ![t] = <<>>]
    /\ freedCnt' = [freedCnt EXCEPT ![t] = 0]
    /\ lenWhite' = [lenWhite EXCEPT ![t] = 0]
    /\ liveAtStart' = [liveAtStart EXCEPT ![t] = {}]
    /\ cycleAtStart' = [cycleAtStart EXCEPT ![t] = {}]
    /\ revived' = [revived EXCEPT ![t] = {}]
    /\ lastOp' = [op |-> "collect", obj |-> t, stat |-> <<a, c>>]

\* collect / try_collect called by thread t, down to collect_cycles: nothing
\* happens when the collector is disabled or the stop-the-world lock is not
\* obtained; on an empty buffer there is nothing to do.  The mutator thread
\* calls it only while the collector thread is inside a pass (a pass the
\* mutator thread runs alone is the pass the collector thread runs alone).
CollectCycles(t) ==
    /\ pc[t] = "idle" /\ stack[t] = <<>>
    /\ t = "mut" => pc["gc"] # "idle"
    /\ IF ~isenabled \/ ~try_pause_self(t) \/ roots = <<>>
       THEN /\ Return(t, 0, 0)
            /\ UNCHANGED <<pause, passFreed>>
       ELSE /\ pause' = TRUE
            /\ pc' = [pc EXCEPT ![t] = "mark"]
            /\ liveAtStart' = [liveAtStart EXCEPT ![t] =
                                  ReachFrom(children, {o \in Obj : ext[o] > 0})]
            /\ cycleAtStart' = [cycleAtStart EXCEPT ![t] =
                                   ClosedCycles \ UNION {Range(white[u]) : u \in Threads}]
            /\ passFreed' = [passFreed EXCEPT ![t] = {}]
            /\ lastOp' = NoOp
            /\ UNCHANGED <<white, idx, resurrected, freedCnt, lenWhite, revived>>
    /\ UNCHANGED <<heapVars, is_enabled>>

MarkRoots(t) ==
    /\ pc[t] = "mark"
    /\ UNCHANGED <<loads, res>>
    /\ LET m == mark_roots(heap, children, roots)
       IN /\ heap' = m.h
          /\ roots' = m.roots
          /\ freedCnt' = [freedCnt EXCEPT ![t] = m.freed]
          /\ dealloced' = BumpAll(dealloced, m.frees)
          /\ passFreed' = [passFreed EXCEPT ![t] = @ \cup Range(m.frees)]
    /\ uaf' = (uaf \/ Touches(Range(roots)))
    /\ pc' = [pc EXCEPT ![t] = "scan"]
    /\ lastOp' = NoOp
    /\ UNCHANGED <<children, hasDel, trace, sideVars, is_enabled, ext, stack, dropped>>
    /\ UNCHANGED <<pause, white, idx, resurrected, lenWhite, liveAtStart,
                   cycleAtStart, revived>>

ScanRoots(t) ==
    /\ pc[t] = "scan"
    /\ UNCHANGED <<loads, res>>
    /\ heap' = scan_roots(heap, children, roots)
    /\ uaf' = (uaf \/ Touches(Range(roots)))
    /\ pc' = [pc EXCEPT ![t] = "collect"]
    /\ lastOp' = NoOp
    /\ UNCHANGED <<children, hasDel, trace, sideVars, is_enabled, ext, roots, stack, dropped,
                   dealloced>>
    /\ UNCHANGED <<pause, white, idx, resurrected, freedCnt, lenWhite,
                   liveAtStart, passFreed, cycleAtStart, revived>>

\* collect_roots up to the release of the stop-the-world lock; with an empty
\* white list free_cycles has nothing to do and collect_cycles returns
CollectRoots(t) ==
    /\ pc[t] = "collect"
    /\ UNCHANGED <<loads, res>>
    /\ LET c == collect_roots(heap, children, roots)
       IN /\ heap' = c.h
          /\ IF c.white = <<>>
             THEN Return(t, freedCnt[t], 0)
             ELSE /\ white' = [white EXCEPT ![t] = c.white]
                  /\ lenWhite' = [lenWhite EXCEPT ![t] = Len(c.white)]
                  /\ pc' = [pc EXCEPT ![t] = "inc"]
                  /\ lastOp' = NoOp
                  /\ UNCHANGED <<idx, resurrected, freedCnt, liveAtStart,
                                 cycleAtStart, revived>>
    /\ roots' = <<>>
    /\ uaf' = (uaf \/ Touches(Range(roots)))
    /\ pause' = FALSE
    /\ UNCHANGED <<children, hasDel, trace, sideVars, is_enabled, ext, stack, dropped, dealloced>>
    /\ UNCHANGED passFreed

\* free_cycles: give back the trial decrement of the children that stay
IncChildren(t) ==
    /\ pc[t] = "inc"
    /\ UNCHANGED <<loads, res>>
    /\ heap' = inc_white_from(heap, children, white[t], 1)
    /\ uaf' = (uaf \/ \E i \in 1..Len(white[t]) :
                         \E c \in {white[t][i]} \cup children[white[t][i]] :
                             dealloced[c] > 0)
    /\ pc' = [pc EXCEPT ![t] = "del"]
    /\ idx' = [idx EXCEPT ![t] = 1]
    /\ resurrected' = [resurrected EXCEPT ![t] = <<>>]
    /\ lastOp' = NoOp
    /\ UNCHANGED <<children, hasDel, trace, sideVars, is_enabled, ext, roots, stack, dropped,
                   dealloced>>
    /\ UNCHANGED <<pause, white, freedCnt, lenWhite, liveAtStart, passFreed,
                   cycleAtStart, revived>>

RemoveAt(s, i) == SubSeq(s, 1, i - 1) \o SubSeq(s, i + 1, Len(s))

\* free_cycles: run __del__ of the next object of white; a resurrected object
\* leaves the list
CallDel(t) ==
    /\ pc[t] = "del" /\ idx[t] <= Len(white[t])
    /\ LET o == white[t][idx[t]]
       IN \E r \in Resurrects(o) :
          LET cd == call_del(heap, o, r)
          IN /\ ext' = IF hasDel[o] /\ r THEN [ext EXCEPT ![o] = @ + 1] ELSE ext
             /\ res' = IF hasDel[o] /\ r THEN res + 1 ELSE res
             /\ uaf' = (uaf \/ dealloced[o] > 0)
             /\ IF cd.ok
                THEN /\ heap' = cd.h
                     /\ idx' = [idx EXCEPT ![t] = @ + 1]
                     /\ UNCHANGED <<white, resurrected, revived>>
                ELSE /\ white' = [white EXCEPT ![t] = RemoveAt(@, idx[t])]
                     /\ revived' = [revived EXCEPT ![t] = @ \cup {o}]
                     /\ UNCHANGED idx
                     /\ IF ~cd.h[o].buffered
                        THEN /\ heap' = set_buffered(cd.h, o, TRUE)
                             /\ resurrected' = [resurrected EXCEPT ![t] = Append(@, o)]
                        ELSE /\ heap' = cd.h
                             /\ UNCHANGED resurrected
    /\ lastOp' = NoOp
    /\ UNCHANGED <<children, hasDel, trace, sideVars, is_enabled, roots, stack, dropped,
                   dealloced, loads>>
    /\ UNCHANGED <<pause, pc, freedCnt, lenWhite, liveAtStart, passFreed, cycleAtStart>>

\* free_cycles: the resurrected objects go back to the buffer; when every
\* object of white was resurrected the two loops that follow do nothing
Rebuffer(t) ==
    /\ pc[t] = "del" /\ idx[t] > Len(white[t])
    /\ UNCHANGED <<loads, res>>
    /\ roots' = roots \o resurrected[t]
    /\ IF white[t] = <<>>
       THEN Return(t, freedCnt[t], lenWhite[t])
       ELSE /\ pc' = [pc EXCEPT ![t] = "drop"]
            /\ idx' = [idx EXCEPT ![t] = 1]
            /\ lastOp' = NoOp
            /\ UNCHANGED <<white, resurrected, freedCnt, lenWhite, liveAtStart,
                           cycleAtStart, revived>>
    /\ UNCHANGED <<heap, children, hasDel, trace, sideVars, is_enabled, ext, stack, dropped,
                   dealloced, uaf>>
    /\ UNCHANGED <<pause, passFreed>>

\* free_cycles: call_vtable_drop_only on the next object of white
DropWhite(t) ==
    /\ pc[t] = "drop" /\ stack[t] = <<>>
    /\ UNCHANGED <<loads, res>>
    /\ LET o == white[t][idx[t]]
       IN /\ children' = [children EXCEPT ![o] = {}]
          /\ dropped' = Bump(dropped, o)
          /\ stack' = [stack EXCEPT ![t] = FieldDrops(o)]
          /\ uaf' = (uaf \/ dealloced[o] > 0)
          /\ passFreed' = [passFreed EXCEPT ![t] = @ \cup {o}]
    /\ IF idx[t] < Len(white[t])
       THEN idx' = [idx EXCEPT ![t] = @ + 1] /\ UNCHANGED pc
       ELSE idx' = [idx EXCEPT ![t] = 1] /\ pc' = [pc EXCEPT ![t] = "dealloc"]
    /\ lastOp' = NoOp
    /\ UNCHANGED <<heap, hasDel, trace, sideVars, is_enabled, ext, roots, dealloced>>
    /\ UNCHANGED <<pause, white, resurrected, freedCnt, lenWhite, liveAtStart,
                   cycleAtStart, revived>>

\* free_cycles: dealloc_only on the next object of white; after the last one
\* collect_cycles returns (freed, len_white)
DeallocWhite(t) ==
    /\ pc[t] = "dealloc" /\ stack[t] = <<>>
    /\ UNCHANGED <<loads, res>>
    /\ LET o == white[t][idx[t]]
       IN /\ dealloced' = Bump(dealloced, o)
          /\ uaf' = (uaf \/ dealloced[o] > 0)
          /\ passFreed' = [passFreed EXCEPT ![t] = @ \cup {o}]
    /\ IF idx[t] < Len(white[t])
       THEN /\ idx' = [idx EXCEPT ![t] = @ + 1]
            /\ lastOp' = NoOp
            /\ UNCHANGED <<pc, white, resurrected, freedCnt, lenWhite, liveAtStart,
                           cycleAtStart, revived>>
       ELSE Return(t, freedCnt[t], lenWhite[t])
    /\ UNCHANGED <<heap, children, hasDel, trace, sideVars, is_enabled, ext, roots, stack, dropped>>
    /\ UNCHANGED pause

\* ------------------------------------------------------------------------
\* The specification
\* ------------------------------------------------------------------------
Next ==
    \/ \E p \in Obj : \E o \in Obj : LoadField(p, o)
    \/ \E o \in Obj : DropRef(o)
    \/ \E o \in Obj : Leak(o)
    \/ \E b \in BOOLEAN : SetEnabled(b)
    \/ \E t \in Threads : ThreadStep(t)
    \/ \E t \in Threads : CollectCycles(t)
    \/ \E t \in Threads : MarkRoots(t)
    \/ \E t \in Threads : ScanRoots(t)
    \/ \E t \in Threads : CollectRoots(t)
    \/ \E t \in Threads : IncChildren(t)
    \/ \E t \in Threads : CallDel(t)
    \/ \E t \in Threads : Rebuffer(t)
    \/ \E t \in Threads : DropWhite(t)
    \/ \E t \in Threads : DeallocWhite(t)

Spec == Init /\ [][Next]_vars

TypeOK ==
    /\ \A o \in Obj : heap[o].rc \in 0..(RcModulus - 1) /\ heap[o].color \in Colors
    /\ \A o \in Obj : ext[o] \in 0..(1 + MaxLoads + MaxRes)
    /\ loads \in 0..MaxLoads /\ res \in 0..MaxRes
    /\ \A t \in Threads :
          pc[t] \in {"idle", "mark", "scan", "collect", "inc", "del", "drop", "dealloc"}
    /\ is_enabled \in BOOLEAN

\* ------------------------------------------------------------------------
\* Properties
\* ------------------------------------------------------------------------
\* the objects the mutator can reach now
LiveNow == ReachFrom(children, {o \in Obj : ext[o] > 0})

\* the step in which collect_cycles returns from a pass that got the lock
PassEnds(t) == pc[t] # "idle" /\ pc'[t] = "idle"

\* C1: an object that is reachable from a mutator-held reference when a pass
\* starts (and is still reachable) is not dropped and not deallocated by that
\* pass
C1_NoPrematureFree ==
    \A t \in Threads : passFreed[t] \cap liveAtStart[t] \cap LiveNow = {}

C3_AtMostOnce == \A o \in Obj : dropped[o] <= 1 /\ dealloced[o] <= 1

\* C4: while the pass is in its drop loop (some destructor of the collected
\* set has not finished) no member of the collected set is deallocated
C4_DropBeforeDealloc ==
    \A t \in Threads :
        pc[t] = "drop" => \A i \in 1..Len(white[t]) : dealloced[white[t][i]] = 0

\* C5: the pass does not run the destructor of an object its finalizer
\* resurrected and does not deallocate it
C5_ResurrectedSurvives ==
    \A t \in Threads : \A o \in revived[t] : o \notin passFreed[t]

\* C6: nothing reachable from a resurrected object is dropped or deallocated
\* by the pass
C6_ReachableFromResurrected ==
    \A t \in Threads : \A o \in revived[t] :
        \A c \in ReachFrom(children, {o}) \ {o} : c \notin passFreed[t]

\* the step is a decrement of o whose ref count is 1, on an object that is
\* not buffered, not leaked and not torn down
LastRefDropped(o) ==
    /\ lastOp'.op = "decrement" /\ lastOp'.obj = o
    /\ heap[o].rc = 1 /\ ~heap[o].buffered /\ ~is_leaked(heap, o)
    /\ dropped[o] = 0 /\ dealloced[o] = 0

\* the decrement returned ShouldDrop, the destructor of o ran and the release
\* of its memory is what the same call does next; no pass took part and o is
\* not in the root buffer
FreedInCall(o) ==
    /\ lastOp'.stat = "ShouldDrop"
    /\ dropped'[o] = 1
    /\ \E t \in Threads : \E i \in 1..Len(stack'[t]) :
          stack'[t][i] = [op |-> "dealloc", obj |-> o]
    /\ pc' = pc
    /\ o \notin Range(roots')

\* a collect on an empty root buffer reports (0, 0)
NothingToCollect ==
    \A t \in Threads :
        (pc[t] = "idle" /\ lastOp'.op = "collect" /\ lastOp'.obj = t /\ roots = <<>>)
            => lastOp'.stat = <<0, 0>>

\* C7 as stated: a decrement from 1 to 0 of an object that is not buffered
\* returns ShouldDrop and drops and deallocates it inside the call; a collect
\* that finds the buffer empty afterwards reports (0, 0)
C7_Original ==
    [][(\A o \in Obj : LastRefDropped(o) => FreedInCall(o)) /\ NothingToCollect]_vars

\* C7 amended: the same, for a decrement in which the finalizer of the object
\* does not store a new reference to it
C7_SynchronousFree ==
    [][(\A o \in Obj : (LastRefDropped(o) /\ res' = res) => FreedInCall(o))
       /\ NothingToCollect]_vars

\* C7 witness: B was freed by a decrement alone and the collect that followed
\* returned (0, 0)
C7_Witness ==
    /\ lastOp.op = "collect" /\ lastOp.stat = <<0, 0>>
    /\ dropped["B"] = 1 /\ dealloced["B"] = 1 /\ heap["B"].is_dealloc
    /\ \A t \in Threads : passFreed[t] = {}
    /\ roots = <<>> /\ ~uaf

\* C8: a pass does not collect a member of a cycle that the mutator still
\* reaches; when the pass releases the lock every such member is Black and
\* not buffered
C8_LiveCycleKept ==
    [][\A t \in Threads : (pc[t] = "collect" /\ pc'[t] # "collect") =>
          \A o \in liveAtStart[t] \cap OnCycle :
              /\ heap'[o].color = "Black"
              /\ ~heap'[o].buffered
              /\ o \notin Range(white'[t])]_vars

\* C9: every object has at most one entry in the root buffer and its buffered
\* flag is set exactly when it has an entry
C9_BufferedIffEntry ==
    /\ \A o \in Obj : heap[o].buffered <=> o \in Range(roots)
    /\ \A i, j \in 1..Len(roots) : roots[i] = roots[j] => i = j

\* C10: once an object is leaked it stays leaked and its ref count never
\* changes, in mutator steps and in the traversals of a pass; an increment or
\* decrement of it changes no header and no root buffer entry, runs no
\* destructor and frees no memory
C10_LeakExempt ==
    [][\A o \in Obj : is_leaked(heap, o) =>
          /\ is_leaked(heap', o)
          /\ heap'[o].rc = heap[o].rc
          /\ (lastOp'.op \in {"increment", "decrement"} /\ lastOp'.obj = o) =>
                /\ heap' = heap /\ roots' = roots
                /\ dropped' = dropped /\ dealloced' = dealloced
                /\ \A t \in Threads : stack'[t] = stack[t] \/ stack'[t] = Tail(stack[t])]_vars

\* C10 witness: the last reference the mutator held to the leaked object C
\* was dropped, the call returned ShouldKeep and C is intact
C10_Witness ==
    /\ is_leaked(heap, "C")
    /\ lastOp = [op |-> "decrement", obj |-> "C", stat |-> "ShouldKeep"]
    /\ ext["C"] = 0 /\ heap["C"].rc >= 1
    /\ dropped["C"] = 0 /\ dealloced["C"] = 0

\* the step is a drop-only call on o: PyObject::drop_only in the BufferedDrop
\* branch of dec_try_drop, or call_vtable_drop_only in the drop loop of
\* free_cycles
DropOnlyCall(o) ==
    \/ lastOp'.op = "decrement" /\ lastOp'.obj = o /\ lastOp'.stat = "BufferedDrop"
    \/ \E t \in Threads :
          /\ pc[t] = "drop" /\ white[t][idx[t]] = o
          /\ idx'[t] # idx[t] \/ pc'[t] # pc[t]

\* C11: a drop-only call on an object whose destructor has already run once
\* runs nothing: the destructor does not run a second time, the payload is
\* not touched and no nested call is made
C11_DropOnlyOnce ==
    [][\A o \in Obj : (DropOnlyCall(o) /\ dropped[o] = 1) =>
          /\ dropped'[o] = 1
          /\ children' = children
          /\ \A t \in Threads : stack'[t] = stack[t] \/ stack'[t] = Tail(stack[t])]_vars

\* a pass is in its mark or scan phase and holds the write side of the pause lock
Marking == pause /\ \E t \in Threads : pc[t] \in {"mark", "scan"}

\* C12: while a pass is in its mark or scan phase no increment and no
\* decrement of another thread takes effect
C12_WorldStopped ==
    [][Marking => lastOp'.op \notin {"increment", "decrement"}]_vars

\* the threads that are inside a collection pass
InPass == {t \in Threads : pc[t] # "idle"}

\* C13: at most one collection pass is in progress at any time
C13_OnePass == Cardinality(InPass) <= 1

\* the write side of the pause lock cannot be had by thread t: a pass holds
\* it, or another thread is between two suspension points and holds the read
\* side
LockBusy(t) ==
    \/ pause
    \/ \E u \in Threads \ {t} : pc[u] = "idle" /\ stack[u] # <<>>

DecrementToZero(o) ==
    /\ lastOp'.op = "decrement" /\ lastOp'.obj = o
    /\ heap[o].rc = 1 /\ ~is_leaked(heap, o)
    /\ dropped[o] = 0 /\ dealloced[o] = 0

\* the step is a decrement of o, not leaked, that leaves its ref count above 0
DecrementKeeps(o) ==
    /\ lastOp'.op = "decrement" /\ lastOp'.obj = o
    /\ heap[o].rc > 1 /\ ~is_leaked(heap, o)

\* no thread enters a pass in this step, a collect that returns in it reports
\* (0, 0), and need_gc answers no whatever the counters say
NoPassStarts ==
    /\ \A t \in Threads : pc[t] = "idle" => pc'[t] = "idle"
    /\ \A t \in Threads : (pc[t] = "idle" /\ lastOp'.op = "collect" /\ lastOp'.obj = t)
          => lastOp'.stat = <<0, 0>>
    /\ \A c \in BOOLEAN : ~need_gc(c)

\* C15 as stated: while the collector is disabled a decrement that brings the
\* ref count to 0 frees the object inside the call, a decrement that leaves it
\* above 0 adds nothing to the root buffer, and no request starts a pass
C15_Original ==
    [][~is_enabled =>
          /\ \A o \in Obj : DecrementToZero(o) => FreedInCall(o)
          /\ \A o \in Obj : DecrementKeeps(o) => roots' = roots
          /\ NoPassStarts]_vars

\* C15 amended: while the collector is disabled a decrement that brings the
\* ref count of an unbuffered object to 0 frees it inside the call unless its
\* finalizer stores a new reference to it, a decrement that leaves the count
\* above 0 on an object that is neither Purple nor buffered colors it Purple
\* and appends it to the root buffer, and no request starts a pass
C15_DisabledStillBuffers ==
    [][~is_enabled =>
          /\ \A o \in Obj : (DecrementToZero(o) /\ ~heap[o].buffered /\ res' = res)
                => FreedInCall(o)
          /\ \A o \in Obj : (DecrementKeeps(o) /\ heap[o].color # "Purple"
                             /\ ~heap[o].buffered)
                => /\ lastOp'.stat = "ShouldKeep"
                   /\ heap'[o].color = "Purple" /\ heap'[o].buffered
                   /\ roots' = Append(roots, o)
          /\ NoPassStarts]_vars

\* C15 witness: the collector is disabled, the last step was a decrement that
\* left the count of an object above 0, the object is a root, and a collect
\* asked for now starts nothing
C15_Witness ==
    /\ ~is_enabled
    /\ lastOp.op = "decrement" /\ lastOp.stat = "ShouldKeep"
    /\ heap[lastOp.obj].rc > 0 /\ heap[lastOp.obj].color = "Purple"
    /\ roots # <<>> /\ roots[Len(roots)] = lastOp.obj
    /\ \A t \in Threads : pc[t] = "idle" /\ stack[t] = <<>>

\* C16: release, called by a decrement that brings the ref count of o to 0,
\* colors o Black and returns BufferedDrop when o is buffered, GarbageCycle
\* when o is not buffered and in_cycle is set, ShouldDrop otherwise
C16_ReleaseThreeWay ==
    [][\A o \in Obj :
          (lastOp'.op = "decrement" /\ lastOp'.obj = o
           /\ heap[o].rc = 1 /\ ~is_leaked(heap, o)) =>
             /\ release(dec(heap, o), roots, o).h[o].color = "Black"
             /\ lastOp'.stat = IF heap[o].buffered THEN "BufferedDrop"
                               ELSE IF heap[o].in_cycle THEN "GarbageCycle"
                               ELSE "ShouldDrop"]_vars

\* the number of entries o has in the root buffer rts
Entries(rts, o) == Cardinality({i \in 1..Len(rts) : rts[i] = o})

\* C17: a decrement that leaves the ref count of a traceable object above 0
\* returns ShouldKeep, frees nothing and leaves the object Purple and buffered
\* with exactly one entry in the root buffer, also when it was buffered before
C17_PossibleRootOnce ==
    [][\A o \in Obj : (DecrementKeeps(o) /\ is_traceable(o)) =>
          /\ lastOp'.stat = "ShouldKeep"
          /\ dropped' = dropped /\ dealloced' = dealloced
          /\ heap'[o].color = "Purple" /\ heap'[o].buffered
          /\ Entries(roots', o) = 1]_vars

\* the step is a decrement of o, which is leaked or has a ref count of 0
DecrementIgnored(o) ==
    /\ lastOp'.op = "decrement" /\ lastOp'.obj = o
    /\ is_leaked(heap, o) \/ heap[o].rc = 0

\* C18 as stated: a decrement of an object that is leaked or whose ref count
\* is already 0 returns DoNothing and changes no header and no root-buffer
\* entry
C18_Original ==
    [][\A o \in Obj : DecrementIgnored(o) =>
          /\ lastOp'.stat = "DoNothing"
          /\ heap' = heap /\ roots' = roots]_vars

\* C18 amended: such a decrement returns ShouldKeep when the object is leaked
\* and DoNothing when it is not leaked and its ref count is already 0; it
\* changes no header and no root-buffer entry
C18_IgnoredDecrement ==
    [][\A o \in Obj : DecrementIgnored(o) =>
          /\ lastOp'.stat = IF is_leaked(heap, o) THEN "ShouldKeep" ELSE "DoNothing"
          /\ heap' = heap /\ roots' = roots]_vars

\* C18 witness: a decrement of an object that is not leaked and has a ref
\* count of 0 has just returned DoNothing
C18_Witness ==
    /\ lastOp.op = "decrement" /\ lastOp.stat = "DoNothing"
    /\ heap[lastOp.obj].rc = 0 /\ ~is_leaked(heap, lastOp.obj)

\* C19: an increment of an object that is not leaked raises its ref count by
\* exactly 1, in the width of the counter, and leaves it Black whatever its
\* color was, in one step; the
\* buffered flag, the other fields, the other headers and the root buffer
\* stay as they are
C19_IncrementBlack ==
    [][\A o \in Obj :
          (lastOp'.op = "increment" /\ lastOp'.obj = o /\ ~is_leaked(heap, o)) =>
             /\ heap' = [heap EXCEPT ![o].rc = (heap[o].rc + 1) % RcModulus,
                                     ![o].color = "Black"]
             /\ roots' = roots
             /\ \A c \in Colors :
                   increment(set_color(heap, o, c), o) =
                       [heap EXCEPT ![o].rc = (heap[o].rc + 1) % RcModulus,
                                     ![o].color = "Black"]]_vars

\* C19 witness: with no pass, no finalizer and no destructor run so far, the
\* object just incremented is buffered, so it was Purple, and it is Black now
C19_Witness ==
    /\ lastOp.op = "increment"
    /\ heap[lastOp.obj].color = "Black" /\ heap[lastOp.obj].buffered
    /\ heap[lastOp.obj].rc > 1
    /\ roots = <<lastOp.obj>>
    /\ res = 0 /\ \A o \in Obj : dropped[o] = 0
    /\ \A t \in Threads : pc[t] = "idle"

\* C20: an object that is not traceable is never Purple and never in the root
\* buffer; a decrement that leaves its ref count above 0 returns ShouldKeep
\* and changes nothing but the count
C20_NonTraceableNeverRoot ==
    [][\A o \in Obj : ~is_traceable(o) =>
          /\ heap'[o].color # "Purple"
          /\ o \notin Range(roots')
          /\ DecrementKeeps(o) =>
                /\ lastOp'.stat = "ShouldKeep"
                /\ heap' = [heap EXCEPT ![o].rc = @ - 1]
                /\ roots' = roots]_vars

\* the step releases the memory of o through dealloc_only in mark_roots
MarkDealloc(o) ==
    /\ dealloced'[o] # dealloced[o]
    /\ \E t \in Threads : pc[t] = "mark" /\ pc'[t] = "scan"

\* the step releases the memory of o through dealloc_only in the dealloc loop
\* of free_cycles
CycleDealloc(o) ==
    /\ dealloced'[o] # dealloced[o]
    /\ \E t \in Threads :
          /\ pc[t] = "dealloc" /\ white[t][idx[t]] = o
          /\ pc'[t] # pc[t] \/ idx'[t] # idx[t]

\* C21: whenever dealloc_only releases the memory of an object, in the mark
\* phase or in the teardown of a cycle, the destructor of the object has
\* already run, its ref count is 0 and its buffered flag is false (mark_roots
\* has cleared the flag and read a count of 0 right before the call)
C21_DeallocOnlyPrecondition ==
    [][\A o \in Obj :
          /\ MarkDealloc(o) => dropped[o] >= 1
          /\ CycleDealloc(o) =>
                (dropped[o] >= 1 /\ heap[o].rc = 0 /\ ~heap[o].buffered)]_vars

\* the step completes a teardown that breaks an invariant of the header: the
\* destructor of o runs a second time, the memory of o is released a second
\* time, or it is released before the destructor has run
ViolationCompletes(o) ==
    \/ dropped[o] = 1 /\ dropped'[o] = 2
    \/ dealloced[o] = 1 /\ dealloced'[o] = 2
    \/ dropped[o] = 0 /\ dealloced'[o] > dealloced[o]

\* C22: a teardown that breaks an invariant (memory released before the
\* destructor ran, destructor run a second time, memory released a second
\* time) aborts: no such call completes and returns to its caller
C22_ViolationAborts ==
    [][\A o \in Obj : ~ViolationCompletes(o)]_vars

\* ------------------------------------------------------------------------
\* The one-shot guards of one header, lock by lock.  Every field of GcHeader
\* sits behind a mutex of its own, so a call of check_set_* is a sequence of
\* separate reads and writes; threads call the three functions in any order.
\* ------------------------------------------------------------------------
collectorVars == <<heap, children, hasDel, trace, ext, roots, pause, is_enabled, pc,
                   white, idx, resurrected, freedCnt, lenWhite, stack, dropped,
                   dealloced, uaf, liveAtStart, passFreed, cycleAtStart, revived,
                   loads, res, lastOp, gate, dataVars, vmVars, frame>>

\* a heap nothing happens in
Quiet == Init /\ children = [o \in Obj |-> {}]

\* the call of thread t returns b
GuardReturn(t, f, b) ==
    /\ call' = [call EXCEPT ![t] = NoCall]
    /\ okCnt' = IF b THEN [okCnt EXCEPT ![f] = Min(@ + 1, 2)] ELSE okCnt

\* thread t enters check_set_drop_only, check_set_dealloc_only or
\* check_set_drop_dealloc
GuardCall(t, f) ==
    /\ call[t] = NoCall
    /\ call' = [call EXCEPT ![t] =
                   [fn |-> f, is_dealloc |-> FALSE,
                    pc |-> IF f = "dealloc_only" THEN "lock_drop" ELSE "read_dealloc"]]
    /\ UNCHANGED <<hdr, okCnt>>
    /\ UNCHANGED collectorVars

\* check_set_dealloc_only: let is_drop = self.is_drop.lock(), a guard held to
\* the end of the function
LockDrop(t) ==
    /\ call[t].pc = "lock_drop"
    /\ hdr.drop_lock = "free"
    /\ hdr' = [hdr EXCEPT !.drop_lock = t]
    /\ call' = [call EXCEPT ![t].pc = "read_dealloc"]
    /\ UNCHANGED okCnt
    /\ UNCHANGED collectorVars

\* let is_dealloc = self.is_dealloc(), and the tests on it that need no
\* further read: in check_set_dealloc_only is_drop is read through the held
\* guard
ReadDealloc(t) ==
    /\ call[t].pc = "read_dealloc"
    /\ IF call[t].fn = "dealloc_only"
       THEN IF hdr.is_drop /\ ~hdr.is_dealloc
            THEN /\ call' = [call EXCEPT ![t].pc = "set_dealloc"]
                 /\ UNCHANGED <<hdr, okCnt>>
            ELSE /\ GuardReturn(t, call[t].fn, FALSE)
                 /\ hdr' = [hdr EXCEPT !.drop_lock = "free"]
       ELSE IF hdr.is_dealloc
            THEN GuardReturn(t, call[t].fn, FALSE) /\ UNCHANGED hdr
            ELSE /\ call' = [call EXCEPT ![t].pc = "read_drop"]
                 /\ UNCHANGED <<hdr, okCnt>>
    /\ UNCHANGED collectorVars

\* if !self.is_drop() && !is_dealloc, in check_set_drop_only and
\* check_set_drop_dealloc: is_drop() takes the mutex for the read alone
ReadDrop(t) ==
    /\ call[t].pc = "read_drop"
    /\ hdr.drop_lock = "free"
    /\ IF ~hdr.is_drop /\ ~call[t].is_dealloc
       THEN /\ call' = [call EXCEPT ![t].pc = "set_drop"]
            /\ UNCHANGED okCnt
       ELSE GuardReturn(t, call[t].fn, FALSE)
    /\ UNCHANGED hdr
    /\ UNCHANGED collectorVars

\* self.set_drop()
SetDrop(t) ==
    /\ call[t].pc = "set_drop"
    /\ hdr.drop_lock = "free"
    /\ hdr' = [hdr EXCEPT !.is_drop = TRUE]
    /\ IF call[t].fn = "drop_dealloc"
       THEN /\ call' = [call EXCEPT ![t].pc = "set_dealloc"]
            /\ UNCHANGED okCnt
       ELSE GuardReturn(t, call[t].fn, TRUE)
    /\ UNCHANGED collectorVars

\* self.set_dealloc(); check_set_dealloc_only gives the is_drop mutex back
\* when it returns
SetDealloc(t) ==
    /\ call[t].pc = "set_dealloc"
    /\ hdr' = [hdr EXCEPT !.is_dealloc = TRUE,
                          !.drop_lock = IF @ = t THEN "free" ELSE @]
    /\ GuardReturn(t, call[t].fn, TRUE)
    /\ UNCHANGED collectorVars

GuardNext ==
    \/ \E t \in Threads : \E f \in GuardFns : GuardCall(t, f)
    \/ \E t \in Threads : LockDrop(t)
    \/ \E t \in Threads : ReadDealloc(t)
    \/ \E t \in Threads : ReadDrop(t)
    \/ \E t \in Threads : SetDrop(t)
    \/ \E t \in Threads : SetDealloc(t)

GuardSpec == Quiet /\ [][GuardNext]_vars

\* C23: however the calls on one header interleave, the drop guard and the
\* dealloc guard never go back to false, at most one call of
\* check_set_drop_only and at most one call of check_set_dealloc_only return
\* true, and once the drop guard is set, without check_set_drop_dealloc, and
\* no call is in progress, a call of check_set_drop_only has returned true
C23_GuardsOneShot ==
    [][/\ hdr.is_drop => hdr'.is_drop
       /\ hdr.is_dealloc => hdr'.is_dealloc
       /\ okCnt'["drop_only"] <= 1
       /\ okCnt'["dealloc_only"] <= 1
       /\ (hdr'.is_drop /\ okCnt'["drop_dealloc"] = 0
           /\ \A t \in Threads : call'[t] = NoCall)
             => okCnt'["drop_only"] = 1]_vars

\* the objects that are allocated and whose destructor has not run
LiveObj == {o \in Obj : dropped[o] = 0 /\ dealloced[o] = 0}

\* no thread is inside a collection pass
NoPass == \A t \in Threads : pc[t] = "idle"

ColoringStep == \E t \in Threads : pc[t] \in {"mark", "scan"} /\ pc'[t] # pc[t]

\* the step is a decrement of o that left its count above 0
KeepingDecrement(o) ==
    lastOp'.op = "decrement" /\ lastOp'.obj = o /\ lastOp'.stat = "ShouldKeep"

ReloadGraphs ==
    {g \in Graphs : \A o \in DelObj : o \in g[o] /\ g[o] \cap PlainObj # {}}

ReloadInit == Init /\ children \in ReloadGraphs

Reload(p, o) ==
    /\ loads < MaxLoads + 1
    /\ load_field(p, o)

ReloadNext ==
    \/ \E p \in Obj : \E o \in Obj : Reload(p, o)
    \/ \E o \in Obj : DropRef(o)
    \/ \E o \in Obj : Leak(o)
    \/ \E b \in BOOLEAN : SetEnabled(b)
    \/ \E t \in Threads : ThreadStep(t)
    \/ \E t \in Threads : CollectCycles(t)
    \/ \E t \in Threads : MarkRoots(t)
    \/ \E t \in Threads : ScanRoots(t)
    \/ \E t \in Threads : CollectRoots(t)
    \/ \E t \in Threads : IncChildren(t)
    \/ \E t \in Threads : CallDel(t)
    \/ \E t \in Threads : Rebuffer(t)
    \/ \E t \in Threads : DropWhite(t)
    \/ \E t \in Threads : DeallocWhite(t)

ReloadSpec == ReloadInit /\ [][ReloadNext]_vars

\* the step is the mark phase of the pass of thread t
MarkStep(t) == pc[t] = "mark" /\ pc'[t] = "scan"

\* the candidates in the root buffer that are Black with a ref count of 0:
\* released while buffered
ReleasedRoots == {o \in Range(roots) : heap[o].color = "Black" /\ heap[o].rc = 0}

\* C25: the mark phase keeps in the root buffer only candidates that were
\* Purple, every other candidate leaves the buffer with its buffered flag
\* cleared; each candidate that is Black with ref count 0 has had its
\* destructor run and is deallocated exactly once, nothing else is
\* deallocated, and the acyclic count the pass returns is the number of such
\* candidates
C25_MarkRootsFrees ==
    [][\A t \in Threads :
          /\ MarkStep(t) =>
                /\ \A o \in Range(roots') : o \in Range(roots) /\ heap[o].color = "Purple"
                /\ \A o \in Range(roots) \ Range(roots') : ~heap'[o].buffered
                /\ \A o \in ReleasedRoots :
                      dropped[o] >= 1 /\ dealloced[o] = 0 /\ dealloced'[o] = 1
                /\ \A o \in Obj \ ReleasedRoots : dealloced'[o] = dealloced[o]
                /\ freedCnt'[t] = Cardinality(ReleasedRoots)
          /\ PassEnds(t) => lastOp'.stat[1] = freedCnt[t]]_vars

\* ------------------------------------------------------------------------
\* The gate of a pass: need_gc, try_collect and collect, with the counters
\* of GcCond and the length of the root buffer taken alone
\* ------------------------------------------------------------------------
gateRest == <<heap, children, hasDel, trace, ext, roots, pause, pc,
              white, idx, resurrected, freedCnt, lenWhite, stack, dropped,
              dealloced, uaf, liveAtStart, passFreed, cycleAtStart, revived,
              loads, res, lastOp, guardVars, dataVars, vmVars, frame>>

\* the condition need_gc computes from the counters and the buffer length
gc_cond(g) ==
    g.alloc_cnt > GcThreshold + g.dealloc_cnt \/ g.root_len > RootCleanupSize

\* Collector::inc_alloc_cnt
IncAllocCnt ==
    /\ gate.alloc_cnt < MaxCount
    /\ gate' = [gate EXCEPT !.alloc_cnt = @ + 1, !.last = NoGateCall]
    /\ UNCHANGED <<is_enabled, gateRest>>

\* Collector::inc_dealloc_cnt
IncDeallocCnt ==
    /\ gate.dealloc_cnt < MaxCount
    /\ gate' = [gate EXCEPT !.dealloc_cnt = @ + 1, !.last = NoGateCall]
    /\ UNCHANGED <<is_enabled, gateRest>>

\* possible_root appends a candidate to the root buffer
GateBuffer ==
    /\ gate.root_len < MaxCount
    /\ gate' = [gate EXCEPT !.root_len = @ + 1, !.last = NoGateCall]
    /\ UNCHANGED <<is_enabled, gateRest>>

\* time passes
GateTick ==
    /\ gate.elapsed < MinInterval
    /\ gate' = [gate EXCEPT !.elapsed = @ + 1, !.last = NoGateCall]
    /\ UNCHANGED <<is_enabled, gateRest>>

\* gc.enable() / gc.disable()
GateSetEnabled(b) ==
    /\ setenabled(b)
    /\ gate' = [gate EXCEPT !.last = NoGateCall]
    /\ UNCHANGED gateRest

\* need_gc: the counters are reset when the answer is yes
GateNeedGc ==
    /\ LET ret == need_gc(gc_cond(gate))
       IN gate' = [gate EXCEPT !.alloc_cnt = IF ret THEN 0 ELSE @,
                               !.dealloc_cnt = IF ret THEN 0 ELSE @,
                               !.last = [op |-> "need_gc", ret |-> ret,
                                         len |-> gate.root_len,
                                         after |-> gate.elapsed]]
    /\ UNCHANGED <<is_enabled, gateRest>>

\* try_collect (force = FALSE) and collect (force = TRUE), down to
\* collect_cycles; got says whether try_pause_self obtained the lock.  A pass
\* that starts drains the root buffer.
GateCollect(force, got) ==
    /\ LET ret == isenabled /\ got /\ gate.root_len # 0
           last == [op |-> IF force THEN "collect" ELSE "try_collect", ret |-> ret,
                    len |-> gate.root_len, after |-> gate.elapsed]
       IN IF ret
          THEN gate' = [gate EXCEPT !.root_len = 0, !.elapsed = 0, !.last = last]
          ELSE gate' = [gate EXCEPT !.last = last]
    /\ UNCHANGED <<is_enabled, gateRest>>

GateNext ==
    \/ IncAllocCnt
    \/ IncDeallocCnt
    \/ GateBuffer
    \/ GateTick
    \/ \E b \in BOOLEAN : GateSetEnabled(b)
    \/ GateNeedGc
    \/ \E force \in BOOLEAN : \E got \in BOOLEAN : GateCollect(force, got)

GateSpec == Quiet /\ [][GateNext]_vars

\* the step starts a pass asked for by op
PassStarts(op) == gate'.last.op = op /\ gate'.last.ret

\* C26 as stated: a non-forced pass starts only when the collector is
\* enabled, the root buffer is longer than its threshold and the minimum
\* interval since the last pass has elapsed; a forced pass needs neither of
\* the last two
C26_Original ==
    [][PassStarts("try_collect") =>
          /\ is_enabled
          /\ gate.root_len > RootCleanupSize
          /\ gate.elapsed >= MinInterval]_vars

\* C26 amended: a non-forced pass starts only when the collector is enabled
\* and the root buffer is not empty, and so does a forced one; need_gc, the
\* check made before a non-forced request, answers yes only when the
\* collector is enabled and the root buffer is longer than its threshold or
\* the allocation count exceeds its threshold plus the deallocation count;
\* no interval is kept
C26_PassGate ==
    [][/\ (PassStarts("try_collect") \/ PassStarts("collect")) =>
             is_enabled /\ gate.root_len > 0
       /\ (gate'.last.op = "need_gc" /\ gate'.last.ret) =>
             /\ is_enabled
             /\ \/ gate.root_len > RootCleanupSize
                \/ gate.alloc_cnt > GcThreshold + gate.dealloc_cnt
             /\ gate'.alloc_cnt = 0 /\ gate'.dealloc_cnt = 0]_vars

\* C26 witness: a non-forced pass has just started on a root buffer no
\* longer than its threshold, with the allocation count under its threshold
\* and no time passed since the pass before it
C26_Witness ==
    /\ gate.last.op = "try_collect" /\ gate.last.ret
    /\ gate.last.len = 1 /\ gate.last.len <= RootCleanupSize
    /\ gate.last.after < MinInterval
    /\ gate.alloc_cnt <= GcThreshold + gate.dealloc_cnt
    /\ is_enabled

\* ------------------------------------------------------------------------
\* GcTrace for the composite values: every value is tagged with its type
\* ------------------------------------------------------------------------
Ref(o) == [k |-> "ref", o |-> o]
None == [k |-> "none"]
Some(v) == [k |-> "some", v |-> v]
VecOf(xs) == [k |-> "vec", xs |-> xs]
Pair(a, b) == [k |-> "pair", a |-> a, b |-> b]
Mutex(held, v) == [k |-> "mutex", held |-> held, v |-> v]
RwLock(writer, v) == [k |-> "rwlock", writer |-> writer, v |-> v]
DictInner(entries) == [k |-> "dict", entries |-> entries]

NoCalls == [calls |-> <<>>, panic |-> FALSE]

\* deadlock_handler: the traversal ends in a panic
deadlock_handler(r) == [r EXCEPT !.panic = TRUE]

\* the traversal of r followed by the traversal of q, unless r panicked
Then(r, q) ==
    IF r.panic THEN r ELSE [calls |-> r.calls \o q.calls, panic |-> q.panic]

RECURSIVE trace_of(_)
RECURSIVE trace_elems(_, _)
RECURSIVE trace_entries(_, _)
\* <[T] as GcTrace>::trace and <Vec<T> as GcTrace>::trace, from element i on
trace_elems(xs, i) ==
    IF i > Len(xs) THEN NoCalls
    ELSE LET r == trace_of(xs[i])
         IN IF r.panic THEN r ELSE Then(r, trace_elems(xs, i + 1))

\* <DictInner<T> as Trace>::trace, from entry i on: key then value of every
\* entry that is Some
trace_entries(es, i) ==
    IF i > Len(es) THEN NoCalls
    ELSE IF ~es[i].some THEN trace_entries(es, i + 1)
    ELSE Then(Then(trace_of(Ref(es[i].key)), trace_of(Ref(es[i].value))),
              trace_entries(es, i + 1))

\* GcTrace::trace by the type of the value; a PyMutex that is locked logs an
\* error and traverses nothing, a PyRwLock that stays write-locked for
\* LOCK_TIMEOUT calls deadlock_handler
trace_of(v) ==
    CASE v.k = "ref" -> [calls |-> <<v.o>>, panic |-> FALSE]
      [] v.k = "none" -> NoCalls
      [] v.k = "some" -> trace_of(v.v)
      [] v.k = "vec" -> trace_elems(v.xs, 1)
      [] v.k = "pair" -> LET r == trace_of(v.a)
                         IN IF r.panic THEN r ELSE Then(r, trace_of(v.b))
      [] v.k = "mutex" -> IF v.held THEN NoCalls ELSE trace_of(v.v)
      [] v.k = "rwlock" -> IF v.writer THEN deadlock_handler(NoCalls) ELSE trace_of(v.v)
      [] v.k = "dict" -> trace_entries(v.entries, 1)

\* the value of box and of dict, as the tagged values they are
BoxValue ==
    Mutex(box.held,
          Pair(IF box.opt = "none" THEN None ELSE Some(Ref(box.opt)),
               VecOf([i \in 1..Len(box.vec) |-> Ref(box.vec[i])])))

DictValue == RwLock(dict.writer, DictInner(dict.entries))

\* everything but the traced containers
dataRest == <<heap, children, hasDel, trace, ext, roots, pause, is_enabled, pc,
              white, idx, resurrected, freedCnt, lenWhite, stack, dropped,
              dealloced, uaf, liveAtStart, passFreed, cycleAtStart, revived,
              loads, res, lastOp, guardVars, gate, vmVars, frame>>

\* the owner of the PyMutex stores Some(o) or None in the Option
BoxStore(x) ==
    /\ ~box.held
    /\ box.opt # x
    /\ box' = [box EXCEPT !.opt = x]
    /\ tcall' = NoTrace
    /\ UNCHANGED <<dict, dret, items, dataRest>>

\* the owner of the PyMutex pushes a reference on the Vec
BoxPush(o) ==
    /\ ~box.held
    /\ Len(box.vec) < MaxLen
    /\ box' = [box EXCEPT !.vec = Append(@, o)]
    /\ tcall' = NoTrace
    /\ UNCHANGED <<dict, dret, items, dataRest>>

\* the owner of the PyMutex pops the last reference of the Vec
BoxPop ==
    /\ ~box.held
    /\ box.vec # <<>>
    /\ box' = [box EXCEPT !.vec = SubSeq(@, 1, Len(@) - 1)]
    /\ tcall' = NoTrace
    /\ UNCHANGED <<dict, dret, items, dataRest>>

\* a thread locks the PyMutex, or unlocks it
BoxLock(b) ==
    /\ box.held # b
    /\ box' = [box EXCEPT !.held = b]
    /\ tcall' = NoTrace
    /\ UNCHANGED <<dict, dret, items, dataRest>>

\* the collector traverses the PyMutex
TraceBox ==
    /\ tcall' = [of |-> "box"] @@ trace_of(BoxValue)
    /\ UNCHANGED <<box, dict, dret, items, dataRest>>

\* ------------------------------------------------------------------------
\* Dict: lookup, insert, delete, len and contains, one call at a time
\* ------------------------------------------------------------------------
\* the hash of a text under the interpreter's hash secret
hash_str(x) == CASE x = "x" -> 1 [] x = "y" -> 5 [] x = "z" -> 2 [] OTHER -> 5

\* <Py<PyStr> as DictKey>::key_hash: the hash of a str object
key_hash(k) == hash_str(TextOf[k])

\* the key a call is made with: a str object, or a Rust str (is = "none")
ObjKey(k) == [is |-> k, text |-> TextOf[k], hash |-> key_hash(k)]
StrKey(x) == [is |-> "none", text |-> x, hash |-> hash_str(x)]

\* key_is: the very same object; a Rust str is never the same object
key_is(q, k) == q.is = k

\* keys that are equal only when they are the same object
key_eq_identity(q, k) == q.is = k

\* key_eq for str keys: the same object or the same text
key_eq(q, k) == q.is = k \/ TextOf[k] = q.text

\* GenIndexes::next: the index probed, and the generator afterwards
GenIndexes(hash, mask) == [idx |-> hash, perturb |-> hash, mask |-> mask]

NextIndex(g) == g.idx % (g.mask + 1)

Advance(g) == [g EXCEPT !.idx = g.idx * 5 + g.perturb + 1,
                        !.perturb = g.perturb \div 32]

\* Dict::lookup from generator g on: <<index entry, index>> of the key, or
\* of the slot a new key goes to (the first DUMMY passed, else the FREE
\* slot that ended the search)
RECURSIVE lookup_from(_, _, _, _)
lookup_from(d, q, g, free_slot) ==
    LET index_index == NextIndex(g)
        index_entry == d.indices[index_index + 1]
    IN IF index_entry = DUMMY
       THEN lookup_from(d, q, Advance(g),
                        IF free_slot = FREE THEN index_index ELSE free_slot)
       ELSE IF index_entry = FREE
       THEN IF free_slot # FREE THEN <<DUMMY, free_slot>> ELSE <<FREE, index_index>>
       ELSE LET entry == d.entries[index_entry + 1]
            IN IF key_is(q, entry.key) THEN <<index_entry, index_index>>
               ELSE IF entry.hash = q.hash /\ key_eq(q, entry.key)
               THEN <<index_entry, index_index>>
               ELSE lookup_from(d, q, Advance(g), free_slot)

lookup(d, q) == lookup_from(d, q, GenIndexes(q.hash, Len(d.indices) - 1), FREE)

\* the power of two resize rounds new_size up to
RECURSIVE PowerOfTwo(_, _)
PowerOfTwo(i, new_size) == IF i < new_size THEN PowerOfTwo(2 * i, new_size) ELSE i

\* the first FREE index on the probe sequence of g
RECURSIVE free_index(_, _)
free_index(ind, g) ==
    IF ind[NextIndex(g) + 1] = FREE THEN NextIndex(g) ELSE free_index(ind, Advance(g))

\* DictInner::resize, from entry i on: every entry that is Some is put at
\* the first FREE index of its probe sequence
RECURSIVE resize_from(_, _)
resize_from(d, i) ==
    IF i > Len(d.entries) THEN [d EXCEPT !.filled = d.used]
    ELSE IF ~d.entries[i].some THEN resize_from(d, i + 1)
    ELSE LET at == free_index(d.indices,
                              GenIndexes(d.entries[i].hash, Len(d.indices) - 1))
         IN resize_from([d EXCEPT !.indices[at + 1] = i - 1,
                                  !.entries[i].index = at], i + 1)

resize(d, new_size) ==
    resize_from([d EXCEPT !.indices = [j \in 1..PowerOfTwo(1, new_size) |-> FREE]], 1)

\* the threshold of a table that is resized only when no slot is FREE
should_resize_full(d) == d.filled * 3 > Len(d.indices) * 3

\* DictInner::should_resize
should_resize(d) == d.filled * 3 > Len(d.indices) * 2

\* DictInner::unchecked_push
unchecked_push(d, index, hash_value, key, value, index_entry) ==
    LET entry == [some |-> TRUE, hash |-> hash_value, key |-> key,
                  index |-> index, value |-> value]
        pushed == [d EXCEPT !.entries = Append(@, entry),
                            !.indices[index + 1] = Len(d.entries),
                            !.used = @ + 1]
        filled == [pushed EXCEPT !.filled = @ + 1]
    IN IF index_entry # FREE THEN pushed
       ELSE IF should_resize(filled) THEN resize(filled, filled.used * 2)
       ELSE filled

\* Dict::insert with a str object as the key
insert(d, k, value) ==
    LET l == lookup(d, ObjKey(k))
    IN IF l[1] >= 0
       THEN [d EXCEPT !.entries[l[1] + 1].value = value]
       ELSE unchecked_push(d, l[2], key_hash(k), k, value, l[1])

\* Dict::pop_inner_if with a predicate that is true: the dict after the
\* call and whether an entry was removed
pop_inner(d, l) ==
    IF l[1] < 0 THEN [dict |-> d, removed |-> FALSE]
    ELSE [dict |-> [d EXCEPT !.indices[l[2] + 1] = DUMMY,
                             !.used = @ - 1,
                             !.entries[l[1] + 1] = NoEntry],
          removed |-> TRUE]

\* Dict::delete_if_exists
delete_if_exists(d, q) == pop_inner(d, lookup(d, q))

\* Dict::len and Dict::contains
len(d) == d.used

contains(d, q) == lookup(d, q)[1] >= 0

\* Dict::get: the value, or "none"
get(d, q) ==
    LET l == lookup(d, q)
    IN IF l[1] >= 0 THEN d.entries[l[1] + 1].value ELSE "none"

\* the keys a call is made with: every str object and every Rust str
Queries == {ObjKey(k) : k \in KeyObj} \cup {StrKey(x) : x \in Texts}

\* dict[key] = value, by a str object
DictInsert(k, value) ==
    /\ ~dict.writer
    /\ Len(dict.entries) < MaxEntries \/ contains(dict, ObjKey(k))
    /\ dict' = insert(dict, k, value)
    /\ items' = IF items[TextOf[k]].some
                THEN [items EXCEPT ![TextOf[k]].value = value]
                ELSE [items EXCEPT ![TextOf[k]] =
                         [some |-> TRUE, key |-> k, value |-> value]]
    /\ dret' = [op |-> "insert", text |-> TextOf[k], ret |-> TRUE,
                val |-> value, len |-> len(dict')]
    /\ tcall' = NoTrace
    /\ UNCHANGED <<box, dataRest>>

\* del dict[key]: Dict::delete, an error when the key is missing
DictDelete(q) ==
    /\ ~dict.writer
    /\ LET p == delete_if_exists(dict, q)
       IN /\ dict' = p.dict
          /\ dret' = [op |-> "delete", text |-> q.text, ret |-> p.removed,
                      val |-> "none", len |-> len(p.dict)]
    /\ items' = [items EXCEPT ![q.text] = NoEntry]
    /\ tcall' = NoTrace
    /\ UNCHANGED <<box, dataRest>>

\* Dict::contains and Dict::get
DictGet(q) ==
    /\ ~dict.writer
    /\ dret' = [op |-> "get", text |-> q.text, ret |-> contains(dict, q),
                val |-> get(dict, q), len |-> len(dict)]
    /\ UNCHANGED <<box, dict, tcall, items, dataRest>>

\* a thread takes the write lock of the Dict and keeps it, or releases it
DictWrite(b) ==
    /\ dict.writer # b
    /\ dict' = [dict EXCEPT !.writer = b]
    /\ tcall' = NoTrace
    /\ UNCHANGED <<box, dret, items, dataRest>>

\* the collector traverses the Dict
TraceDict ==
    /\ tcall' = [of |-> "dict"] @@ trace_of(DictValue)
    /\ UNCHANGED <<box, dict, dret, items, dataRest>>

\* the PyMutex taken alone
TraceNext ==
    \/ \E x \in Obj \cup {"none"} : BoxStore(x)
    \/ \E o \in Obj : BoxPush(o)
    \/ BoxPop
    \/ \E b \in BOOLEAN : BoxLock(b)
    \/ TraceBox

TraceSpec == Quiet /\ [][TraceNext]_vars

\* the Dict taken alone
DictNext ==
    \/ \E k \in KeyObj : \E value \in Obj : DictInsert(k, value)
    \/ \E q \in Queries : DictDelete(q)
    \/ \E q \in Queries : DictGet(q)
    \/ \E b \in BOOLEAN : DictWrite(b)
    \/ TraceDict

DictSpec == Quiet /\ [][DictNext]_vars

\* how often o occurs in the sequence s
Count(s, o) == Cardinality({i \in 1..Len(s) : s[i] = o})

\* the owned references to o the PyMutex stores, and those the Dict stores:
\* the key object and the value of every item it holds
StoredInBox(o) == (IF box.opt = o THEN 1 ELSE 0) + Count(box.vec, o)

StoredInDict(o) ==
    Cardinality({x \in Texts : items[x].some /\ items[x].key = o})
    + Cardinality({x \in Texts : items[x].some /\ items[x].value = o})

Stored(of, o) == IF of = "box" THEN StoredInBox(o) ELSE StoredInDict(o)

\* C27: a traversal of a composite value returns normally having called the
\* tracer once for every owned reference the value stores at that time (twice
\* for two references to one object, never for a removed entry of a Dict),
\* and leaves every ref count as it was
C27_TracedExactlyOnce ==
    [][tcall'.of # "none" =>
          /\ ~tcall'.panic
          /\ \A o \in Obj \cup KeyObj :
                Count(tcall'.calls, o) = Stored(tcall'.of, o)
          /\ heap' = heap]_vars

\* the part of C27 that holds: a traversal calls the tracer at most once for
\* every owned reference stored, exactly once when the lock around the value
\* is free, and leaves every ref count as it was
C27_TracedAtMostOnce ==
    [][tcall'.of # "none" =>
          /\ \A o \in Obj \cup KeyObj :
                /\ Count(tcall'.calls, o) <= Stored(tcall'.of, o)
                /\ (tcall'.of = "box" /\ ~box.held) \/ (tcall'.of = "dict" /\ ~dict.writer)
                     => Count(tcall'.calls, o) = Stored(tcall'.of, o)
          /\ heap' = heap]_vars

\* C28: the switch of the one collector of the process starts enabled; it
\* changes in calls of setenabled only and then holds the value passed, so
\* that isenabled returns what the most recent enable / disable set; a
\* collect call made while it is disabled starts no pass, returns acyclic 0
\* and cyclic 0 and leaves the heap alone
C28_EnabledSwitch ==
    /\ isenabled = TRUE
    /\ [][/\ \A b \in BOOLEAN : SetEnabled(b) => isenabled' = b
          /\ is_enabled' # is_enabled => \E b \in BOOLEAN : SetEnabled(b)
          /\ \A t \in Threads : (~isenabled /\ pc[t] = "idle") =>
                /\ pc'[t] = "idle"
                /\ (lastOp'.op = "collect" /\ lastOp'.obj = t) =>
                      /\ lastOp'.stat = <<0, 0>>
                      /\ UNCHANGED <<heapVars, pause>>]_vars

\* C28 witness: the collector is disabled; a collect call made with a live
\* candidate in the root buffer and the lock free has returned 0
C28_Witness ==
    /\ ~isenabled
    /\ lastOp.op = "collect" /\ lastOp.stat = <<0, 0>>
    /\ \A t \in Threads : pc[t] = "idle"
    /\ ~pause /\ roots # <<>>
    /\ \E o \in Range(roots) : heap[o].color = "Purple" /\ dropped[o] = 0

\* the texts the Dict should hold an item for
Present == {x \in Texts : items[x].some}

\* C29: after any sequence of insert and delete, len is the number of
\* distinct keys present; every key, given as a str object or as a Rust str
\* of the same text, is found exactly when its text is present, and get
\* returns the value inserted last; an insert of a new key raises len by 1,
\* an insert of a present key leaves len alone, a delete of a present key
\* lowers len by 1 and a delete of a missing key fails
C29_DictLen ==
    /\ [](/\ len(dict) = Cardinality(Present)
          /\ \A q \in Queries :
                /\ contains(dict, q) <=> q.text \in Present
                /\ q.text \in Present => get(dict, q) = items[q.text].value
          /\ \A k \in KeyObj : key_hash(k) = StrKey(TextOf[k]).hash)
    /\ [][/\ dret'.op = "insert" /\ dret' # dret =>
                /\ dret'.len = len(dict) + (IF dret'.text \in Present THEN 0 ELSE 1)
                /\ get(dict', StrKey(dret'.text)) = dret'.val
          /\ dret'.op = "delete" /\ dret' # dret =>
                /\ dret'.ret <=> dret'.text \in Present
                /\ dret'.len = len(dict) - (IF dret'.text \in Present THEN 1 ELSE 0)
                /\ dret'.text \notin Present'
          /\ dret'.op = "get" /\ dret' # dret =>
                /\ dret'.ret <=> dret'.text \in Present
                /\ dret'.len = len(dict)]_vars

\* C29 witness: the Dict has been resized, holds a hole left by a delete, and
\* the str object k1 inserted last is found through the Rust str of its text
\* and through k2, another str object of the same text, while a text that
\* was never inserted is not found though a key of the same hash is present
C29_Witness ==
    /\ Len(dict.indices) > IndicesSize
    /\ \E i \in 1..Len(dict.entries) : ~dict.entries[i].some
    /\ dret.op = "insert" /\ dret.text = "x" /\ dret.len = 3
    /\ items["x"].key = "k1"
    /\ contains(dict, StrKey("x")) /\ contains(dict, ObjKey("k2"))
    /\ hash_str("w") = hash_str("y") /\ contains(dict, StrKey("y"))
    /\ ~contains(dict, StrKey("w"))

\* the references to o that exist: those the mutator holds and those stored
\* in the payload of an object whose destructor has not run
RefsTo(o) == ext[o] + InDegree(children, o)

\* no pass is running and no destructor is in the middle of its calls
AtRest == NoPass /\ \A t \in Threads : stack[t] = <<>>

\* C30: a pass leaves the ref count of every surviving object at the number
\* of references to it that are left, which is its count before the pass
\* minus the references held by the objects the pass collected: every trial
\* decrement of mark_gray is undone exactly once
C30_TrialDecrementsUndone ==
    \A o \in LiveObj :
        (AtRest /\ ~is_leaked(heap, o)) => heap[o].rc = RefsTo(o)

\* ------------------------------------------------------------------------
\* The release of the stop-the-world lock
\* ------------------------------------------------------------------------
\* the step in which the pass of t releases the stop-the-world lock
ReleaseStep(t) == pc[t] = "collect" /\ pc'[t] # "collect"

\* the objects of the collected set whose destructor has not run yet
Undropped(t) == {o \in Range(white[t]) : dropped[o] = 0}

\* the step runs the destructor of o in a call the mutator made
MutatorFrees(o) == lastOp'.op = "decrement" /\ dropped'[o] > dropped[o] /\ pc["mut"] = "idle"
                   /\ stack["mut"] = <<>>

\* C31: when a pass releases the stop-the-world lock every object outside
\* its white list has a ref count equal to the number of references to it,
\* and afterwards no decrement of the mutator frees an object that a
\* collected object whose destructor has not run still refers to
C31_CountsExactAtRelease ==
    [][/\ \A t \in Threads : ReleaseStep(t) =>
             \A o \in LiveObj \ Range(white'[t]) :
                 ~is_leaked(heap', o) => heap'[o].rc = RefsTo(o)
       /\ \A o \in Obj : MutatorFrees(o) =>
             \A t \in Threads : \A w \in Undropped(t) : o \notin children[w]]_vars

\* ------------------------------------------------------------------------
\* The colors at the start of the collect phase
\* ------------------------------------------------------------------------
\* the pass of t has finished scan_roots and has not started collect_roots
CollectStarts(t) == pc[t] = "collect"

\* s holds no object twice
NoDuplicates(s) == \A i, j \in 1..Len(s) : s[i] = s[j] => i = j

\* C32: when the collect phase starts no object is Gray and every White
\* object has a ref count of 0 and cannot be reached from a reference the
\* mutator holds; no object is on a white list twice
C32_WhiteIsGarbage ==
    \A t \in Threads :
        /\ CollectStarts(t) =>
              \A o \in LiveObj :
                  /\ heap[o].color # "Gray"
                  /\ heap[o].color = "White" => (heap[o].rc = 0 /\ o \notin LiveNow)
        /\ NoDuplicates(white[t])

\* ------------------------------------------------------------------------
\* A finalizer that resurrects on the release path
\* ------------------------------------------------------------------------
\* the step is a decrement of o that returned BufferedDrop and whose __del__
\* left the ref count above 0
ResurrectedInDrop(o) ==
    /\ lastOp'.op = "decrement" /\ lastOp'.obj = o /\ lastOp'.stat = "BufferedDrop"
    /\ heap'[o].rc > 0

\* thread t has no call to make that it did not have before the step
NoNewCalls(t) ==
    \E n \in 0..Len(stack[t]) : stack'[t] = SubSeq(stack[t], n + 1, Len(stack[t]))

\* C33: when decrement returns BufferedDrop and __del__ resurrects the
\* object, drop_only gives up: no destructor runs, no field is dropped and
\* nothing is deallocated; the mark phase deallocates no object whose ref
\* count is above 0
C33_ResurrectedNotDropped ==
    [][/\ \A o \in Obj : ResurrectedInDrop(o) =>
             /\ dropped' = dropped /\ dealloced' = dealloced
             /\ children' = children
             /\ \A t \in Threads : NoNewCalls(t)
       /\ \A t \in Threads : MarkStep(t) =>
             \A o \in Obj : heap[o].rc > 0 => dealloced'[o] = dealloced[o]]_vars

\* C33 witness: the last call was a decrement that returned BufferedDrop, its
\* __del__ resurrected the object, which is still in the buffer for the next
\* mark phase and whose destructor has not run
C33_Witness ==
    /\ lastOp.op = "decrement" /\ lastOp.stat = "BufferedDrop"
    /\ heap[lastOp.obj].rc > 0 /\ ext[lastOp.obj] > 0
    /\ dropped[lastOp.obj] = 0 /\ dealloced[lastOp.obj] = 0
    /\ heap[lastOp.obj].buffered

\* ------------------------------------------------------------------------
\* The counts a pass returns
\* ------------------------------------------------------------------------
\* C34: the cyclic count a pass returns is the number of objects left on its
\* white list, which are the ones it dropped and deallocated as members of a
\* cycle; an object its __del__ resurrected is not among them
C34_CyclicCountIsFreed ==
    [][\A t \in Threads : PassEnds(t) =>
          /\ lastOp'.stat[2] = Len(white[t])
          /\ \A o \in Range(white[t]) : o \notin revived[t] /\ dealloced'[o] >= 1]_vars

\* ------------------------------------------------------------------------
\* pausing, resuming and stop_the_world_gc: the pause lock of every VM and
\* the read and write guards of Collector.pause taken alone
\* ------------------------------------------------------------------------
\* everything but the pause locks
vmRest == <<heap, children, hasDel, trace, ext, roots, pause, is_enabled, pc,
            white, idx, resurrected, freedCnt, lenWhite, stack, dropped,
            dealloced, uaf, liveAtStart, passFreed, cycleAtStart, revived,
            loads, res, lastOp, guardVars, gate, dataVars, frame>>

\* GCReadLock::take: the lock moved out, and the empty one left behind
take(p) == [ret |-> p, left |-> NewReadLock]

\* pausing on the GCReadLock p: one more level, or a read guard taken
pausing(p) ==
    IF p.guard THEN [p EXCEPT !.recursive = @ + 1]
    ELSE [p EXCEPT !.guard = TRUE]

\* resuming that gives the guard back whatever the depth
resuming_flat(p) ==
    IF p.guard THEN [p EXCEPT !.guard = FALSE] ELSE p

\* resuming on the GCReadLock p: one level less, or the read guard given back;
\* nothing without a guard
resuming(p) ==
    IF p.guard
    THEN IF p.recursive > 0 THEN [p EXCEPT !.recursive = @ - 1]
         ELSE [p EXCEPT !.guard = FALSE]
    ELSE p

\* the read guards of v after its GCReadLock went from p to q
Guards(rw, v, p, q) ==
    [rw EXCEPT !.readers[v] = IF q.guard /\ ~p.guard THEN @ + 1
                              ELSE IF p.guard /\ ~q.guard THEN @ - 1 ELSE @]

\* VM v is not inside a call on its pause lock
VmRuns(v) == stw[v].pc = "none"

\* pausing(vm): read_recursive waits while a collector holds the write guard
Pausing(v) ==
    /\ VmRuns(v)
    /\ pause_lock[v].recursive < MaxDepth
    /\ ~pause_lock[v].guard => rwlock.writer = "none"
    /\ pause_lock' = [pause_lock EXCEPT ![v] = pausing(@)]
    /\ rwlock' = Guards(rwlock, v, pause_lock[v], pausing(pause_lock[v]))
    /\ excess' = [excess EXCEPT ![v] = @ + 1]
    /\ vmlast' = [op |-> "pausing", vm |-> v, warned |-> FALSE,
                  panic |-> ~pause_lock[v].guard /\ pause_lock[v].recursive # 0]
    /\ UNCHANGED <<stw, vmRest>>

\* resuming(vm): warns when there is no guard to give back
Resuming(v) ==
    /\ VmRuns(v)
    /\ pause_lock' = [pause_lock EXCEPT ![v] = resuming(@)]
    /\ rwlock' = Guards(rwlock, v, pause_lock[v], resuming(pause_lock[v]))
    /\ excess' = [excess EXCEPT ![v] = IF @ > 0 THEN @ - 1 ELSE 0]
    /\ vmlast' = [op |-> "resuming", vm |-> v, warned |-> ~pause_lock[v].guard,
                  panic |-> ~pause_lock[v].guard /\ pause_lock[v].recursive # 0]
    /\ UNCHANGED <<stw, vmRest>>

\* stop_the_world_gc, first lines: the GCReadLock is moved out of the VM and
\* its guard dropped
StwTake(v) ==
    /\ VmRuns(v)
    /\ stw' = [stw EXCEPT ![v] = [pc |-> "taken",
                                  saved |-> [take(pause_lock[v]).ret EXCEPT !.guard = FALSE],
                                  before |-> pause_lock[v], done |-> TRUE]]
    /\ pause_lock' = [pause_lock EXCEPT ![v] = take(@).left]
    /\ rwlock' = Guards(rwlock, v, pause_lock[v], NewReadLock)
    /\ vmlast' = NoVmCall
    /\ UNCHANGED <<excess, vmRest>>

\* collect_cycles, try_pause_self: the write guard is taken when nobody holds
\* a guard; otherwise the attempt gives up and collect_cycles returns
StwLock(v) ==
    /\ stw[v].pc = "taken"
    /\ IF rwlock.writer = "none" /\ \A u \in VMs : rwlock.readers[u] = 0
       THEN /\ rwlock' = [rwlock EXCEPT !.writer = v]
            /\ stw' = [stw EXCEPT ![v].pc = "locked"]
       ELSE /\ stw' = [stw EXCEPT ![v].pc = "unlocked"]
            /\ UNCHANGED rwlock
    /\ vmlast' = NoVmCall
    /\ UNCHANGED <<pause_lock, excess, vmRest>>

\* collect_cycles: the pass gives the write guard back
StwUnlock(v) ==
    /\ stw[v].pc = "locked"
    /\ rwlock' = [rwlock EXCEPT !.writer = "none"]
    /\ stw' = [stw EXCEPT ![v].pc = "unlocked"]
    /\ vmlast' = NoVmCall
    /\ UNCHANGED <<pause_lock, excess, vmRest>>

\* stop_the_world_gc, last lines: a read guard is taken and the GCReadLock
\* put back into the VM
StwRestore(v) ==
    /\ stw[v].pc = "unlocked"
    /\ rwlock.writer = "none"
    /\ pause_lock' = [pause_lock EXCEPT ![v] = [stw[v].saved EXCEPT !.guard = TRUE]]
    /\ rwlock' = [rwlock EXCEPT !.readers[v] = @ + 1]
    /\ stw' = [stw EXCEPT ![v].pc = "none"]
    /\ vmlast' = [op |-> "collect", vm |-> v, warned |-> FALSE, panic |-> FALSE]
    /\ UNCHANGED <<excess, vmRest>>

LockNext ==
    \/ \E v \in VMs : Pausing(v)
    \/ \E v \in VMs : Resuming(v)
    \/ \E v \in VMs : StwTake(v)
    \/ \E v \in VMs : StwLock(v)
    \/ \E v \in VMs : StwUnlock(v)
    \/ \E v \in VMs : StwRestore(v)

LockSpec == Quiet /\ [][LockNext]_vars

\* the step in which v asks for the write guard
AsksWrite(v) == stw[v].pc = "taken" /\ stw'[v].pc # "taken"

\* the step in which collect returns to v
CollectReturns(v) == stw[v].pc = "unlocked" /\ stw'[v].pc = "none"

\* C35: a VM asks for the write guard only after its own read guard is
\* released, and when collect returns the VM's pause lock, guard and depth,
\* is what it was before the call
C35_PauseLockRestored ==
    [][\A v \in VMs :
          /\ AsksWrite(v) => rwlock.readers[v] = 0
          /\ CollectReturns(v) => pause_lock'[v] = stw[v].before]_vars

\* VM v has made pausing and resuming calls only
OnlyPauses(v) == ~stw[v].done

\* C36: on a VM that makes pausing and resuming calls only, the read guard
\* is held exactly while pausing calls exceed the matching resuming calls,
\* the recursion counter is that excess minus one (0 without a guard), no
\* assertion of the two functions fails, and a resuming call made without a
\* guard changes nothing
C36_PauseDepth ==
    /\ [](\A v \in VMs : OnlyPauses(v) =>
             /\ pause_lock[v].guard <=> excess[v] > 0
             /\ pause_lock[v].recursive = (IF excess[v] > 0 THEN excess[v] - 1 ELSE 0)
             /\ rwlock.readers[v] = (IF pause_lock[v].guard THEN 1 ELSE 0)
             /\ (vmlast.vm = v => ~vmlast.panic))
    /\ [][\A v \in VMs :
             (OnlyPauses(v) /\ vmlast'.op = "resuming" /\ vmlast'.vm = v
                 /\ ~pause_lock[v].guard)
             => (vmlast'.warned /\ UNCHANGED <<pause_lock, rwlock, excess>>)]_vars

\* C36 witness: a VM that has never called collect made three pausing calls
\* and then a resuming call: guard held, recursion counter 1
C36_Witness ==
    \E v \in VMs :
        /\ OnlyPauses(v)
        /\ vmlast.op = "resuming" /\ vmlast.vm = v
        /\ excess[v] = 2
        /\ pause_lock[v] = [guard |-> TRUE, recursive |-> 1]

\* ------------------------------------------------------------------------
\* The range of the ref count
\* ------------------------------------------------------------------------
\* a ref count that a decrement took below zero reads as a number in the
\* upper half of the word
Wrapped(o) == heap[o].rc >= RcModulus \div 2

\* C37: no ref count is ever taken below zero, by a decrement, by the trial
\* decrements of mark_gray or by a finalizer call; a decrement of an object
\* whose count is 0 leaves the count at 0
C37_NoUnderflow ==
    /\ [](\A o \in Obj : ~Wrapped(o))
    /\ [][\A o \in Obj :
             (lastOp'.op = "decrement" /\ lastOp'.obj = o /\ heap[o].rc = 0)
             => heap'[o].rc = 0]_vars

\* ------------------------------------------------------------------------
\* Purple objects and the root buffer
\* ------------------------------------------------------------------------
\* C38: every live object that is Purple is flagged buffered and has an
\* entry in the root buffer
C38_PurpleIsBuffered ==
    \A o \in LiveObj :
        heap[o].color = "Purple" => (heap[o].buffered /\ o \in Range(roots))

\* ------------------------------------------------------------------------
\* ExecutingFrame::run: the counter gc_cnt of the run loop, the instruction
\* index lasti and the calls of try_gc, taken alone
\* ------------------------------------------------------------------------
\* everything but the frame and the gate of the collector
frameRest == <<heap, children, hasDel, trace, ext, roots, pause, is_enabled, pc,
               white, idx, resurrected, freedCnt, lenWhite, stack, dropped,
               dealloced, uaf, liveAtStart, passFreed, cycleAtStart, revived,
               loads, res, lastOp, guardVars, dataVars, vmVars>>

\* the indexes of the instructions
CodeIdx == 0 .. CodeLen - 1

\* what an instruction does to the run: the next one follows, a jump to
\* instruction to, or the end of the run (return, yield, exception)
Outcomes ==
    {[k |-> "next", to |-> 0], [k |-> "end", to |-> 0]}
        \cup {[k |-> "jump", to |-> j] : j \in CodeIdx}

\* the head of the loop body: gc_cnt += 1; if gc_cnt > 1000 { try_gc();
\* gc_cnt = 0 }
tick_ge(c) ==
    IF c + 1 >= GcCountLimit
    THEN [gc_cnt |-> 0, try |-> TRUE]
    ELSE [gc_cnt |-> c + 1, try |-> FALSE]

tick(c) ==
    IF c + 1 > GcCountLimit
    THEN [gc_cnt |-> 0, try |-> TRUE]
    ELSE [gc_cnt |-> c + 1, try |-> FALSE]

\* try_gc: a non-forced request for a pass, seen from the gate; got says
\* whether the pause lock was obtained.  It has no access to the frame.
try_gc(g, got) ==
    LET ret == isenabled /\ got /\ g.root_len # 0
        last == [op |-> "try_collect", ret |-> ret, len |-> g.root_len,
                 after |-> g.elapsed]
    IN IF ret
       THEN [g EXCEPT !.root_len = 0, !.elapsed = 0, !.last = last]
       ELSE [g EXCEPT !.last = last]

\* run is entered, on a new frame or on a frame that was suspended: gc_cnt
\* is a local of run and starts at 0
FrameRun(resume) ==
    /\ ~frame.running
    /\ frame' = [running |-> TRUE, at |-> "top", gc_cnt |-> 0,
                 lasti |-> IF resume /\ frame.lasti < CodeLen THEN frame.lasti ELSE 0,
                 dispatched |-> 0, since |-> 0, attempts |-> 0]
    /\ UNCHANGED <<gate, frameRest>>

\* the head of one iteration of the loop
FrameTick(got) ==
    /\ frame.running /\ frame.at = "top"
    /\ LET r == tick(frame.gc_cnt)
       IN /\ frame' = [frame EXCEPT !.gc_cnt = r.gc_cnt, !.at = "fetch",
                                    !.attempts = IF r.try THEN @ + 1 ELSE @,
                                    !.since = IF r.try THEN 0 ELSE @]
          /\ gate' = IF r.try THEN try_gc(gate, got) ELSE gate
    /\ UNCHANGED frameRest

\* the rest of the iteration: the instruction at lasti is fetched, lasti is
\* advanced and the instruction is executed
FrameDispatch(out) ==
    /\ frame.running /\ frame.at = "fetch"
    /\ frame.dispatched < MaxInstr
    /\ frame.lasti < CodeLen
    /\ out.k = "next" => frame.lasti + 1 < CodeLen
    /\ frame' = [frame EXCEPT !.lasti = IF out.k = "jump" THEN out.to ELSE @ + 1,
                              !.at = "top",
                              !.running = out.k # "end",
                              !.dispatched = @ + 1,
                              !.since = @ + 1]
    /\ UNCHANGED <<gate, frameRest>>

FrameNext ==
    \/ \E resume \in BOOLEAN : FrameRun(resume)
    \/ \E got \in BOOLEAN : FrameTick(got)
    \/ \E out \in Outcomes : FrameDispatch(out)

FrameSpec == Quiet /\ [][FrameNext]_vars

\* the step calls try_gc
Attempt == frame.running /\ frame'.running /\ frame'.attempts = frame.attempts + 1

\* the step is the head of an iteration
HeadStep == frame.running /\ frame.at = "top" /\ frame'.at = "fetch"

\* C39 as stated: try_gc is called after every 1001 dispatched instructions
\* and never more often, the counter is 0 after each call, and the call does
\* not change the instruction executed next
C39_Original ==
    [][/\ Attempt =>
             /\ frame.since = GcCountLimit + 1
             /\ frame'.gc_cnt = 0
             /\ frame'.lasti = frame.lasti
       /\ (HeadStep /\ frame.since = GcCountLimit + 1) => Attempt]_vars

\* the instructions dispatched between two calls of try_gc, or between the
\* start of the run and the first call
Period == IF frame.attempts = 0 THEN GcCountLimit ELSE GcCountLimit + 1

\* C39 amended: in one run of a frame try_gc is called at the head of the
\* loop when 1000 instructions have been dispatched since the start of the
\* run, then each time 1001 more have been dispatched, and at no other time;
\* the counter is 0 after each call, and the call does not change the
\* instruction executed next
C39_AttemptEveryPeriod ==
    [][/\ Attempt =>
             /\ HeadStep
             /\ frame.since = Period
             /\ frame'.gc_cnt = 0
             /\ frame'.lasti = frame.lasti
       /\ (HeadStep /\ frame.since = Period) => Attempt]_vars

\* C39 witness: the second call of try_gc of a run has been made, 2001
\* instructions after the start, and the next instruction is not the first
C39_Witness ==
    /\ frame.running /\ frame.at = "fetch"
    /\ frame.attempts = 2 /\ frame.since = 0
    /\ frame.dispatched = 2 * GcCountLimit + 1
    /\ frame.gc_cnt = 0
    /\ frame.lasti = 1
    /\ gate.last.op = "try_collect"

\* ------------------------------------------------------------------------
\* Dict: setdefault, pop, pop_back and clear, and the index table after any
\* sequence of calls
\* ------------------------------------------------------------------------
\* Dict::setdefault with a str object as the key: the dict after the call
\* and the value it returns
setdefault(d, k, default) ==
    LET l == lookup(d, ObjKey(k))
    IN IF l[1] >= 0
       THEN [dict |-> d, value |-> d.entries[l[1] + 1].value]
       ELSE [dict |-> unchecked_push(d, l[2], key_hash(k), k, default, l[1]),
             value |-> default]

\* Dict::pop: pop_inner on the result of lookup
pop(d, q) == pop_inner(d, lookup(d, q))

\* Dict::pop_back: the entries Vec is popped until an entry that is Some
\* comes off; its index slot becomes DUMMY
RECURSIVE pop_back(_)
pop_back(d) ==
    IF d.entries = <<>> THEN [dict |-> d, removed |-> FALSE, entry |-> NoEntry]
    ELSE LET entry == d.entries[Len(d.entries)]
             popped == [d EXCEPT !.entries = SubSeq(@, 1, Len(@) - 1)]
         IN IF entry.some
            THEN [dict |-> [popped EXCEPT !.used = @ - 1,
                                          !.indices[entry.index + 1] = DUMMY],
                  removed |-> TRUE, entry |-> entry]
            ELSE pop_back(popped)

\* Dict::clear
clear(d) ==
    [d EXCEPT !.indices = [j \in 1..IndicesSize |-> FREE],
              !.used = 0, !.filled = 0, !.entries = <<>>]

\* dict.setdefault(key, default), by a str object
DictSetdefault(k, default) ==
    /\ ~dict.writer
    /\ Len(dict.entries) < MaxEntries \/ contains(dict, ObjKey(k))
    /\ LET r == setdefault(dict, k, default)
       IN /\ dict' = r.dict
          /\ dret' = [op |-> "setdefault", text |-> TextOf[k], ret |-> TRUE,
                      val |-> r.value, len |-> len(r.dict)]
    /\ items' = IF items[TextOf[k]].some THEN items
                ELSE [items EXCEPT ![TextOf[k]] =
                         [some |-> TRUE, key |-> k, value |-> default]]
    /\ tcall' = NoTrace
    /\ UNCHANGED <<box, dataRest>>

\* dict.pop(key)
DictPop(q) ==
    /\ ~dict.writer
    /\ LET p == pop(dict, q)
       IN /\ dict' = p.dict
          /\ dret' = [op |-> "pop", text |-> q.text, ret |-> p.removed,
                      val |-> get(dict, q), len |-> len(p.dict)]
    /\ items' = [items EXCEPT ![q.text] = NoEntry]
    /\ tcall' = NoTrace
    /\ UNCHANGED <<box, dataRest>>

\* dict.popitem()
DictPopBack ==
    /\ ~dict.writer
    /\ LET p == pop_back(dict)
       IN /\ dict' = p.dict
          /\ dret' = [op |-> "pop_back",
                      text |-> IF p.removed THEN TextOf[p.entry.key] ELSE "none",
                      ret |-> p.removed,
                      val |-> IF p.removed THEN p.entry.value ELSE "none",
                      len |-> len(p.dict)]
          /\ items' = IF p.removed
                      THEN [items EXCEPT ![TextOf[p.entry.key]] = NoEntry]
                      ELSE items
    /\ tcall' = NoTrace
    /\ UNCHANGED <<box, dataRest>>

\* dict.clear()
DictClear ==
    /\ ~dict.writer
    /\ dict' = clear(dict)
    /\ dret' = [op |-> "clear", text |-> "none", ret |-> TRUE, val |-> "none",
                len |-> 0]
    /\ items' = [x \in Texts |-> NoEntry]
    /\ tcall' = NoTrace
    /\ UNCHANGED <<box, dataRest>>

\* every call on the Dict, one at a time
DictOpsNext ==
    \/ \E k \in KeyObj : \E value \in Obj : DictInsert(k, value)
    \/ \E k \in KeyObj : \E default \in Obj : DictSetdefault(k, default)
    \/ \E q \in Queries : DictDelete(q)
    \/ \E q \in Queries : DictPop(q)
    \/ DictPopBack
    \/ DictClear
    \/ \E q \in Queries : DictGet(q)

DictOpsSpec == Quiet /\ [][DictOpsNext]_vars

\* n is a power of two
RECURSIVE IsPowerOfTwo(_)
IsPowerOfTwo(n) == n = 1 \/ (n > 1 /\ n % 2 = 0 /\ IsPowerOfTwo(n \div 2))

\* the index slots that are not FREE
Taken(d) == {j \in 1..Len(d.indices) : d.indices[j] # FREE}

\* C40: after any sequence of insert, setdefault, delete, pop, pop_back and
\* clear the length of the index table is a power of two, filled counts
\* every slot that is not FREE and is at most two thirds of the length, and
\* so at least one slot is FREE
C40_IndexTable ==
    /\ IsPowerOfTwo(Len(dict.indices))
    /\ Cardinality(Taken(dict)) <= dict.filled
    /\ dict.filled * 3 <= 2 * Len(dict.indices)
    /\ \E j \in 1..Len(dict.indices) : dict.indices[j] = FREE

\* C40 witness: the table was shrunk by a resize to two slots, below the
\* size it starts with, and pop_back has then removed the only entry: one
\* slot is DUMMY, the other is FREE
C40_Witness ==
    /\ Len(dict.indices) = 2 /\ Len(dict.indices) < IndicesSize
    /\ dret.op = "pop_back" /\ dret.ret
    /\ dict.used = 0 /\ dict.filled = 1
    /\ \E j \in 1..2 : dict.indices[j] = DUMMY
    /\ \E j \in 1..2 : dict.indices[j] = FREE

====
